---- MODULE Spec2Model ----
(***************************************************************************)
(* Raid handler (src/src/raid_handler.rs, RaidHandlerInner2 / BossMap /    *)
(* Subscription) and image-hash worker (src/src/image_hash/stream.rs) of   *)
(* petronel-graphql as state machines.                                     *)
(*                                                                         *)
(* Handler operations (push, update_image_hash, retain, subscribe) hold no  *)
(* await, and the properties below speak of sequences of calls: each call  *)
(* is one action, and so is one poll_next of a Subscription.  Calls on     *)
(* several threads are interleaved call by call, not inside a call.        *)
(* Arc<BossEntry> values are heap objects with identity (entries[id]); an  *)
(* entry lives while the map or the vec snapshot refers to it, and its     *)
(* broadcast Sender is dropped with it.                                    *)
(***************************************************************************)
EXTENDS Integers, Sequences, FiniteSets, TLC

\* ---------------------------------------------------------------- bounds
MaxPush == 3
MaxSubs == 1
MaxBossSubs == 1
MaxTime == 2
HistorySize == 2
BroadcastCapacity == 2
MaxRequests == 4
Concurrency == 2
\* capacity of a waiting channel: broadcast::channel(1)
WaitingCapacity == 1

None == "None"
\* Option<ImageHash>::None
NoHash == 0
Names == {"ja1", "ja2", "en1", "en2"}
PairNames == {"ja1", "en1"}
\* names with a boss of another level among them
SnapshotNames == {"ja1", "ja2", "en1", "en100"}
Hashes == {123}
Uris == {"url", "url2"}
Times == 1..MaxTime
\* the runs with subscriptions stamp every raid with the same time
PairTimes == {MaxTime}
SubIds == 1..MaxSubs
BossSubIds == 1..MaxBossSubs

\* The parser tags a raid with the language of the tweet form it matched;
\* the model's names are language specific.
NameLanguage(n) == IF n \in {"ja1", "ja2"} THEN "ja" ELSE "en"

\* The level is parsed from the "Lv60 " / "Lvl 60 " prefix of the name; one
\* of the model's names is a level 100 boss.
parse_level(n) == IF n = "en100" THEN 100 ELSE 60

\* Rank used for CachedString ordering of the model's names.
NameRank(n) ==
    CASE n = None -> 0
      [] n = "en100" -> 1
      [] n = "en1" -> 2
      [] n = "en2" -> 3
      [] n = "ja1" -> 4
      [] n = "ja2" -> 5

VARIABLES
    map,        \* BossMap.map: name -> entry id (DashMap)
    entries,    \* heap of live Arc<BossEntry>: id -> BossEntry
    vec,        \* BossMap.vec: sequence of entry ids (ArcSwap snapshot)
    waiting,    \* BossMap.waiting: name -> channel id
    chans,      \* live broadcast channels: id -> [cap]
    subs,       \* live Subscriptions: id -> record
    bsubs,      \* live subscribe_boss_updates streams: id -> record
    pushed,     \* number of raids pushed so far (next tweet_id - 1)
    log,        \* history: the raids pushed, in push order, where recorded
    lastOp,     \* the operation that produced this state
    inbox,      \* image-hash worker: rx_in queue of (boss_name, uri)
    requested,  \* image-hash worker: boss_name -> State
    out_queue,  \* image-hash worker: rx_out queue of futures
    in_flight,  \* image-hash worker: futures being polled by buffer_unordered
    output,     \* image-hash worker: BossImageHash items yielded so far
    calls,      \* history: boss_name -> number of hasher invocations
    inbox_open, \* whether an Inbox handle is alive
    requests,   \* number of requests sent so far
    page,       \* Cursor::paginate: the arguments of a call and its result
    codec,      \* cursor / node id codec: a value, its encoding, the decoding
    tweet,      \* tweet parser: a tweet and the outcome of Raid::try_from
    conn,       \* upstream reconnect worker: its position and history
    made,       \* Boss::from(&Raid): a boss_name and the outcome of the conversion
    race        \* two tasks on one BossMap, one dictionary operation per step

handlerVars == <<map, entries, vec, waiting, chans, subs, bsubs, pushed, log, lastOp>>
hashVars == <<inbox, requested, out_queue, in_flight, output, calls, inbox_open, requests>>
queryVars == <<page, codec>>
ingestVars == <<tweet, conn, made, race>>
vars == <<map, entries, vec, waiting, chans, subs, bsubs, pushed, log, lastOp,
          inbox, requested, out_queue, in_flight, output, calls, inbox_open, requests,
          page, codec, tweet, conn, made, race>>

\* ------------------------------------------------------------- utilities
Put(f, k, v) == [x \in (DOMAIN f) \cup {k} |-> IF x = k THEN v ELSE f[x]]
Remove(f, k) == [x \in (DOMAIN f) \ {k} |-> f[x]]
Restrict(f, S) == [x \in (DOMAIN f) \cap S |-> f[x]]
Range(f) == {f[x] : x \in DOMAIN f}
MinOf(S) == CHOOSE x \in S : \A y \in S : x <= y
MaxInt(a, b) == IF a >= b THEN a ELSE b
EmptyMap == [x \in {} |-> 0]

RECURSIVE NextPowerOfTwo(_)
NextPowerOfTwo(n) == IF n <= 1 THEN 1 ELSE 2 * NextPowerOfTwo((n + 1) \div 2)

\* Vec::sort_by_key is a stable sort.  SortPairs sorts a sequence of
\* [k, v] records by k, inserting each element after every element whose
\* key is <= its own.
RECURSIVE InsertPair(_, _)
InsertPair(sorted, x) ==
    IF sorted = <<>> THEN <<x>>
    ELSE IF x.k < sorted[Len(sorted)].k
         THEN Append(InsertPair(SubSeq(sorted, 1, Len(sorted) - 1), x),
                     sorted[Len(sorted)])
         ELSE Append(sorted, x)

RECURSIVE SortPairs(_)
SortPairs(s) ==
    IF s = <<>> THEN <<>>
    ELSE InsertPair(SortPairs(SubSeq(s, 1, Len(s) - 1)), s[Len(s)])

\* keys[i] is the sort key of s[i]
SortByKey(s, keys) ==
    LET pairs == [i \in 1..Len(s) |-> [k |-> keys[i], v |-> s[i]]]
        sorted == SortPairs(pairs)
    IN [i \in 1..Len(s) |-> sorted[i].v]

\* Vec::dedup_by removes consecutive equal elements only.
RECURSIVE Dedup(_)
Dedup(s) ==
    IF Len(s) <= 1 THEN s
    ELSE LET d == Dedup(SubSeq(s, 1, Len(s) - 1))
         IN IF d[Len(d)] = s[Len(s)] THEN d ELSE Append(d, s[Len(s)])

\* -------------------------------------------------------------- LangString
LangStringNew(lang, value) ==
    IF lang = "en" THEN [en |-> value, ja |-> None] ELSE [en |-> None, ja |-> value]
LangStringEmpty == [en |-> None, ja |-> None]
LangGet(ls, lang) == IF lang = "en" THEN ls.en ELSE ls.ja
LangSet(ls, lang, value) ==
    IF lang = "en" THEN [ls EXCEPT !.en = value] ELSE [ls EXCEPT !.ja = value]
Canonical(ls) == IF ls.ja # None THEN ls.ja ELSE ls.en
LangMerge(self, other) ==
    [en |-> IF self.en # None THEN self.en ELSE other.en,
     ja |-> IF self.ja # None THEN self.ja ELSE other.ja]
\* BossEntry::for_each_key: the names an entry carries, ja then en
EntryKeys(e) == {e.boss.name.ja, e.boss.name.en} \ {None}

\* Boss::from(&Raid)
BossFromRaid(raid) ==
    [name |-> LangStringNew(raid.language, raid.boss_name),
     image |-> IF raid.image_url = None THEN LangStringEmpty
               ELSE LangStringNew(raid.language, raid.image_url),
     level |-> parse_level(raid.boss_name),
     last_seen_at |-> raid.created_at,
     image_hash |-> NoHash]

\* faulty variant of QueuePush: a queue that never drops its oldest element
QueuePushUnbounded(q, x, cap) == Append(q, x)
\* CircularQueue::push on a queue kept oldest first (asc_iter order)
QueuePush(q, x, cap) == IF Len(q) >= cap THEN Append(Tail(q), x) ELSE Append(q, x)

RECURSIVE PushAll(_, _, _)
PushAll(q, s, cap) ==
    IF s = <<>> THEN q ELSE PushAll(QueuePush(q, Head(s), cap), Tail(s), cap)

\* ------------------------------------------------------ broadcast channels
\* A handler state is the record of the handler's fields.
Handler == [map |-> map, entries |-> entries, vec |-> vec, waiting |-> waiting,
            chans |-> chans, subs |-> subs, bsubs |-> bsubs]

\* All Sender handles of channel c are gone: no live entry and no waiting
\* slot holds one.
Closed(h, c) ==
    /\ \A i \in DOMAIN h.entries : h.entries[i].broadcast # c
    /\ \A n \in DOMAIN h.waiting : h.waiting[n] # c

\* Sender::receiver_count
ReceiverCount(h, c) == Cardinality({s \in DOMAIN h.subs : h.subs[s].rx = c})

\* broadcast::channel(capacity): a fresh channel; the capacity is rounded up
\* to a power of two.
NewChannelId(h) == 0
NewChannel(h, capacity) ==
    [h EXCEPT !.chans = Put(@, NewChannelId(h), [cap |-> NextPowerOfTwo(capacity)])]

\* faulty variant of Receive: the value is queued before the unread ones
ReceiveNewestFirst(sub, raid, cap) ==
    IF Len(sub.pending) >= cap
    THEN [sub EXCEPT !.pending = <<raid>> \o Tail(@), !.missed = TRUE]
    ELSE [sub EXCEPT !.pending = <<raid>> \o @]
\* One receiver's side of Sender::send: the value is queued; a receiver that
\* already holds cap unread values loses the oldest one and will see Lagged.
Receive(sub, raid, cap) ==
    IF Len(sub.pending) >= cap
    THEN [sub EXCEPT !.pending = Append(Tail(@), raid), !.missed = TRUE]
    ELSE [sub EXCEPT !.pending = Append(@, raid)]

\* Sender::send: every receiver of the channel gets the value.
Send(h, c, raid) ==
    [h EXCEPT !.subs = [s \in DOMAIN h.subs |->
        IF h.subs[s].rx = c THEN Receive(h.subs[s], raid, h.chans[c].cap)
        ELSE h.subs[s]]]

\* a Weak<BossEntry> whose entry has been dropped: upgrade() returns None
Dangling == 0 - 1

\* Dropping the last Arc of an entry drops the entry and its Sender; a
\* channel without Sender and Receiver is gone, and the Weak references to
\* a dropped entry that sit in the boss_broadcast channel dangle.
Drop(h) ==
    LET liveE == Range(h.map) \cup Range(h.vec)
        ents == Restrict(h.entries, liveE)
        liveC == {ents[i].broadcast : i \in DOMAIN ents}
                 \cup Range(h.waiting)
                 \cup {h.subs[s].rx : s \in DOMAIN h.subs}
    IN [h EXCEPT !.entries = ents, !.chans = Restrict(h.chans, liveC),
                 !.bsubs = [b \in DOMAIN h.bsubs |->
                    [h.bsubs[b] EXCEPT !.pending = [i \in 1..Len(@) |->
                        IF @[i] \in liveE THEN @[i] ELSE Dangling]]]]

\* The ids of entries and channels stand for addresses, which carry no
\* meaning: after every operation a live entry is renamed to the rank of the
\* smallest name that resolves to it, a live channel to the smallest code
\* of its holders (entries, then waiting slots, then receivers).  Id 0 is
\* the address of the one object an operation allocates.
EntryCode(h, id) ==
    LET ranks == {NameRank(n) : n \in {k \in DOMAIN h.map : h.map[k] = id}}
    IN IF ranks = {} THEN 2 * Cardinality(Names \cup SnapshotNames) + id ELSE MinOf(ranks)

ChannelCode(h, c) ==
    MinOf({EntryCode(h, i) : i \in {j \in DOMAIN h.entries : h.entries[j].broadcast = c}}
          \cup {3 * Cardinality(Names \cup SnapshotNames) + 1 + NameRank(n) :
                  n \in {k \in DOMAIN h.waiting : h.waiting[k] = c}}
          \cup {4 * Cardinality(Names \cup SnapshotNames) + 1 + s :
                  s \in {x \in DOMAIN h.subs : h.subs[x].rx = c}})

Renamed(h, E, C) ==
    LET Einv == [e \in Range(E) |-> CHOOSE id \in DOMAIN E : E[id] = e]
        Cinv == [c \in Range(C) |-> CHOOSE id \in DOMAIN C : C[id] = c]
    IN [map |-> [n \in DOMAIN h.map |-> E[h.map[n]]],
        entries |-> [e \in DOMAIN Einv |->
                       [h.entries[Einv[e]] EXCEPT !.broadcast = C[@]]],
        vec |-> [i \in 1..Len(h.vec) |-> E[h.vec[i]]],
        waiting |-> [n \in DOMAIN h.waiting |-> C[h.waiting[n]]],
        chans |-> [c \in DOMAIN Cinv |-> h.chans[Cinv[c]]],
        subs |-> [s \in DOMAIN h.subs |-> [h.subs[s] EXCEPT !.rx = C[@]]],
        bsubs |-> [b \in DOMAIN h.bsubs |->
                     [h.bsubs[b] EXCEPT !.pending = [i \in 1..Len(@) |->
                         IF @[i] = Dangling THEN Dangling ELSE E[@[i]]]]]]

Renumber(h) ==
    Renamed(h, [id \in DOMAIN h.entries |-> EntryCode(h, id)],
               [c \in DOMAIN h.chans |-> ChannelCode(h, c)])

\* ------------------------------------------------------------------ BossMap
\* Arc::new(entry)
NewEntryId(h) == 0

\* The order in which DashMap::iter visits the keys is unspecified; the
\* model takes the keys by ascending or by descending rank.
IterOrders == {"asc", "desc"}
IterKeys(h, ord) ==
    LET Rank(n) == IF ord = "asc" THEN NameRank(n) ELSE 0 - NameRank(n)
        RECURSIVE Enum(_)
        Enum(S) == IF S = {} THEN <<>>
                   ELSE LET n == CHOOSE x \in S : \A y \in S : Rank(x) <= Rank(y)
                        IN <<n>> \o Enum(S \ {n})
    IN Enum(DOMAIN h.map)

\* sort key of update_vec: (level, canonical name)
VecKey(h, id) == h.entries[id].boss.level * 10 + NameRank(Canonical(h.entries[id].boss.name))

\* faulty variant of update_vec: the sorted values are not deduplicated
update_vec_no_dedup(h, ord) ==
    LET keys == IterKeys(h, ord)
        vals == [i \in 1..Len(keys) |-> h.map[keys[i]]]
        keyed == [i \in 1..Len(vals) |-> VecKey(h, vals[i])]
    IN [h EXCEPT !.vec = SortByKey(vals, keyed)]
\* BossMap::update_vec
update_vec(h, ord) ==
    LET keys == IterKeys(h, ord)
        vals == [i \in 1..Len(keys) |-> h.map[keys[i]]]
        keyed == [i \in 1..Len(vals) |-> VecKey(h, vals[i])]
    IN [h EXCEPT !.vec = Dedup(SortByKey(vals, keyed))]

\* faulty variant of insert: the entry is indexed under one of its names only
insert_first_key_only(h, id, ord) ==
    LET k == CHOOSE x \in EntryKeys(h.entries[id]) :
                 \A y \in EntryKeys(h.entries[id]) : NameRank(x) >= NameRank(y)
    IN update_vec([h EXCEPT !.map = Put(@, k, id), !.waiting = Remove(@, k)], ord)
\* BossMap::insert of the entry with the given id
insert(h, id, ord) ==
    LET keys == EntryKeys(h.entries[id])
        h1 == [h EXCEPT
                 !.map = [n \in (DOMAIN h.map) \cup keys |->
                            IF n \in keys THEN id ELSE h.map[n]],
                 !.waiting = Restrict(@, (DOMAIN h.waiting) \ keys)]
    IN update_vec(h1, ord)

\* BossMap::subscribe: the channel the new receiver is attached to, and the
\* handler afterwards (a waiting slot may have been created)
subscribe_channel(h, key) ==
    IF key \in DOMAIN h.map THEN h.entries[h.map[key]].broadcast
    ELSE IF key \in DOMAIN h.waiting THEN h.waiting[key]
    ELSE NewChannelId(h)
subscribe_handler(h, key) ==
    IF key \in DOMAIN h.map \/ key \in DOMAIN h.waiting THEN h
    ELSE LET c == NewChannelId(h)
         IN [NewChannel(h, WaitingCapacity) EXCEPT !.waiting = Put(@, key, c)]

\* BossMap::new_entry_from_raid
new_entry_from_raid(h, raid, ord) ==
    LET adopt == raid.boss_name \in DOMAIN h.waiting
        c == IF adopt THEN h.waiting[raid.boss_name] ELSE NewChannelId(h)
        h1 == IF adopt THEN [h EXCEPT !.waiting = Remove(@, raid.boss_name)]
              ELSE NewChannel(h, BroadcastCapacity)
        entry == [boss |-> BossFromRaid(raid),
                  history |-> QueuePush(<<>>, raid, HistorySize),
                  broadcast |-> c]
        h2 == Send(h1, c, raid)
        id == NewEntryId(h2)
        h3 == [h2 EXCEPT !.entries = Put(@, id, entry)]
    IN insert(h3, id, ord)

\* faulty variant of retain: an entry last seen at the cutoff is kept
retain_at_or_after(h, last_seen_after, ord) ==
    LET kept == {n \in DOMAIN h.map :
                    h.entries[h.map[n]].boss.last_seen_at >= last_seen_after}
    IN update_vec([h EXCEPT !.map = Restrict(@, kept)], ord)
\* faulty variant of retain: every waiting slot is removed
retain_all_waiting(h, last_seen_after, ord) ==
    LET kept == {n \in DOMAIN h.map :
                    h.entries[h.map[n]].boss.last_seen_at > last_seen_after}
        h1 == [h EXCEPT !.map = Restrict(@, kept)]
        h2 == IF Cardinality(kept) # Cardinality(DOMAIN h.map)
              THEN update_vec(h1, ord) ELSE h1
    IN Drop([h2 EXCEPT !.waiting = EmptyMap])
\* BossMap::retain with the predicate of RaidHandlerInner2::retain
retain(h, last_seen_after, ord) ==
    LET kept == {n \in DOMAIN h.map :
                    h.entries[h.map[n]].boss.last_seen_at > last_seen_after}
        h1 == [h EXCEPT !.map = Restrict(@, kept)]
        h2 == IF Cardinality(kept) # Cardinality(DOMAIN h.map)
              THEN update_vec(h1, ord) ELSE h1
    IN Drop([h2 EXCEPT !.waiting =
          Restrict(@, {n \in DOMAIN h2.waiting : ReceiverCount(h2, h2.waiting[n]) > 0})])

\* ------------------------------------------------------- RaidHandlerInner2
\* RaidHandlerInner2::bosses: the current snapshot
bosses(h) == h.vec

\* the entries update_image_hash's find can return for (boss_name, hash)
Matching(h, boss_name, image_hash) ==
    IF boss_name \notin DOMAIN h.map THEN {}
    ELSE LET this_boss == h.entries[h.map[boss_name]].boss
         IN {h.map[n] : n \in {k \in DOMAIN h.map :
                LET other_boss == h.entries[h.map[k]].boss
                IN /\ other_boss.image_hash = image_hash
                   /\ other_boss.level = this_boss.level
                   /\ other_boss.name # this_boss.name}}

\* faulty variant of publish: nothing is sent
publish_nothing(h, id) == h
\* boss_broadcast.send(Arc::downgrade(entry)): every subscribe_boss_updates
\* receiver gets a Weak reference to the entry; the channel was created
\* with broadcast_capacity
publish(h, id) ==
    [h EXCEPT !.bsubs = [b \in DOMAIN h.bsubs |->
        [Receive(h.bsubs[b], id, NextPowerOfTwo(BroadcastCapacity))
            EXCEPT !.received = @ + 1]]]

\* what find can return to update_image_hash(boss_name, image_hash): the id
\* of a matching entry, or 0 for no entry (also when the call returns before
\* the search)
find(h, boss_name, image_hash) ==
    IF /\ boss_name \in DOMAIN h.map
       /\ h.entries[h.map[boss_name]].boss.image_hash = NoHash
       /\ Matching(h, boss_name, image_hash) # {}
    THEN Matching(h, boss_name, image_hash) ELSE {0}

created_at(raid) == raid.created_at

\* the merged entry of update_image_hash's match branch
MergedEntry(h, keep, discard, image_hash) ==
    LET k == h.entries[keep]
        d == h.entries[discard]
        both == d.history \o k.history
        combined == SortByKey(both, [i \in 1..Len(both) |-> created_at(both[i])])
    IN [boss |-> [name |-> LangMerge(k.boss.name, d.boss.name),
                  image |-> LangMerge(k.boss.image, d.boss.image),
                  level |-> k.boss.level,
                  last_seen_at |-> MaxInt(k.boss.last_seen_at, d.boss.last_seen_at),
                  image_hash |-> image_hash],
        history |-> PushAll(<<>>, combined, HistorySize),
        broadcast |-> k.broadcast]

\* faulty variant of update_image_hash: the entry the call targeted is kept
update_image_hash_keep_this(h, boss_name, image_hash, other, ord) ==
    IF boss_name \notin DOMAIN h.map THEN h
    ELSE
      LET this == h.map[boss_name]
          id == NewEntryId(h)
      IN IF h.entries[this].boss.image_hash # NoHash THEN h
         ELSE IF other # 0
         THEN Drop(publish(insert([h EXCEPT !.entries =
                  Put(@, id, MergedEntry(h, this, other, image_hash))], id, ord), id))
         ELSE Drop(insert([h EXCEPT !.entries = Put(@, id,
                  [h.entries[this] EXCEPT !.boss.image_hash = image_hash])], id, ord))
\* RaidHandlerInner2::update_image_hash; other is the entry find returned
\* (0 when it returned nothing)
update_image_hash(h, boss_name, image_hash, other, ord) ==
    IF boss_name \notin DOMAIN h.map THEN h
    ELSE
      LET this == h.map[boss_name]
          this_boss == h.entries[this].boss
      IN IF this_boss.image_hash # NoHash THEN h
         ELSE
           LET is_japanese == this_boss.name.ja # None
               id == NewEntryId(h)
           IN IF other # 0
              THEN LET keep == IF is_japanese THEN this ELSE other
                       discard == IF is_japanese THEN other ELSE this
                       new_entry == MergedEntry(h, keep, discard, image_hash)
                   IN Drop(publish(insert([h EXCEPT !.entries = Put(@, id, new_entry)],
                                          id, ord), id))
              ELSE LET new_entry == [h.entries[this] EXCEPT !.boss.image_hash = image_hash]
                   IN Drop(insert([h EXCEPT !.entries = Put(@, id, new_entry)], id, ord))

\* faulty variant of push: the entry is cloned before the raid is pushed to
\* its history
push_clone_first(h, raid, ord) ==
    IF raid.boss_name \in DOMAIN h.map
    THEN LET id == h.map[raid.boss_name]
             old_entry == h.entries[id]
             h1 == [h EXCEPT !.entries[id].boss.last_seen_at = raid.created_at]
             h2 == Send(h1, h1.entries[id].broadcast, raid)
             h3 == [h2 EXCEPT !.entries[id].history = QueuePush(@, raid, HistorySize)]
             entry == h3.entries[id]
         IN IF LangGet(entry.boss.image, raid.language) = None /\ raid.image_url # None
            THEN LET new_id == NewEntryId(h3)
                     new_entry == [old_entry EXCEPT
                         !.boss.image = LangSet(@, raid.language, raid.image_url)]
                 IN Drop(publish(insert([h3 EXCEPT !.entries = Put(@, new_id, new_entry)],
                                          new_id, ord), new_id))
            ELSE h3
    ELSE Drop(publish(new_entry_from_raid(h, raid, ord), NewEntryId(h)))
\* RaidHandlerInner2::push
push(h, raid, ord) ==
    IF raid.boss_name \in DOMAIN h.map
    THEN LET id == h.map[raid.boss_name]
             h1 == [h EXCEPT !.entries[id].boss.last_seen_at = raid.created_at]
             h2 == Send(h1, h1.entries[id].broadcast, raid)
             h3 == [h2 EXCEPT !.entries[id].history = QueuePush(@, raid, HistorySize)]
             entry == h3.entries[id]
         IN IF LangGet(entry.boss.image, raid.language) = None /\ raid.image_url # None
            THEN LET new_id == NewEntryId(h3)
                     new_entry == [entry EXCEPT
                         !.boss.image = LangSet(@, raid.language, raid.image_url)]
                 IN Drop(publish(insert([h3 EXCEPT !.entries = Put(@, new_id, new_entry)],
                                          new_id, ord), new_id))
            ELSE h3
    ELSE Drop(publish(new_entry_from_raid(h, raid, ord), NewEntryId(h)))


\* ------------------------------------------------------------ Subscription
\* RaidHandler::subscribe: a new Subscription for boss_name
NewSubscription(h, boss_name) ==
    [boss_name |-> boss_name,
     rx |-> subscribe_channel(h, boss_name),
     pending |-> <<>>,          \* values sent and not yet received, oldest first
     missed |-> FALSE,          \* the receiver fell behind: next recv is Lagged
     delivered |-> <<>>,        \* history: the items poll_next has yielded
     owed |-> <<>>,             \* history: the raids pushed for its boss
     lagged |-> FALSE,          \* history: a Lagged was swallowed
     early |-> boss_name \notin DOMAIN h.map,  \* history: subscribed before the boss
     evicted |-> FALSE]         \* history: retain has removed its boss since

\* the arm of poll_next taken when the inner receiver is closed or ended:
\* the receiver is replaced by handler.subscribe(boss_name)
resubscribe(h, s) ==
    LET name == h.subs[s].boss_name
        c == subscribe_channel(h, name)
        h1 == subscribe_handler(h, name)
    IN Drop([h1 EXCEPT !.subs[s].rx = c, !.subs[s].pending = <<>>,
                       !.subs[s].missed = FALSE])

RECURSIVE poll_loop(_, _, _, _)
\* faulty variant of poll_loop: a Lagged or a closed receiver ends the stream
poll_loop_ends(h, s, resubscribed, lag) ==
    LET sub == h.subs[s]
    IN IF sub.missed
       THEN [h |-> [h EXCEPT !.subs[s].missed = FALSE, !.subs[s].lagged = TRUE],
             outcome |-> "end", resubscribed |-> resubscribed, lagged |-> TRUE]
       ELSE IF sub.pending # <<>>
       THEN [h |-> [h EXCEPT !.subs[s].pending = Tail(@),
                             !.subs[s].delivered = Append(@, Head(sub.pending))],
             outcome |-> "item", resubscribed |-> resubscribed, lagged |-> lag]
       ELSE IF Closed(h, sub.rx)
       THEN [h |-> h, outcome |-> "end", resubscribed |-> resubscribed, lagged |-> lag]
       ELSE [h |-> h, outcome |-> "pending", resubscribed |-> resubscribed, lagged |-> lag]
\* Subscription::poll_next, up to its return: the handler afterwards, what
\* was returned ("item", "pending", or "end" for Ready(None)), and whether
\* the loop re-subscribed or swallowed a Lagged on the way.
poll_loop(h, s, resubscribed, lag) ==
    LET sub == h.subs[s]
    IN IF sub.missed
       THEN \* Some(Err(Lagged)) => continue
            poll_loop([h EXCEPT !.subs[s].missed = FALSE, !.subs[s].lagged = TRUE],
                      s, resubscribed, TRUE)
       ELSE IF sub.pending # <<>>
       THEN \* Some(Ok(item)) => return Ready(Some(item))
            [h |-> [h EXCEPT !.subs[s].pending = Tail(@),
                             !.subs[s].delivered = Append(@, Head(sub.pending))],
             outcome |-> "item", resubscribed |-> resubscribed, lagged |-> lag]
       ELSE IF Closed(h, sub.rx)
       THEN \* Some(Err(Closed)) | None => re-subscribe and poll again
            poll_loop(resubscribe(h, s), s, TRUE, lag)
       ELSE \* the inner receiver is Pending
            [h |-> h, outcome |-> "pending", resubscribed |-> resubscribed, lagged |-> lag]

poll_next(h, s) == poll_loop(h, s, FALSE, FALSE)

\* ---------------------------------------------------- subscribe_boss_updates
\* RaidHandlerInner2::subscribe_boss_updates: a new receiver of boss_broadcast
NewBossUpdates ==
    [pending |-> <<>>,     \* Weak references sent and not yet received
     missed |-> FALSE,     \* the receiver fell behind: next recv is Lagged
     received |-> 0,       \* history: the number of sends it was a receiver of
     changes |-> 0,        \* history: creations, image fill-ins and merges since
     yielded |-> 0,        \* history: the number of items the stream yielded
     skipped |-> 0,        \* history: items dropped because upgrade() failed
     lagged |-> FALSE]     \* history: a Lagged was dropped

\* poll_next of the filter_map stream: Err(Lagged) and a Weak that does not
\* upgrade are filtered out and the receiver is polled again
RECURSIVE boss_updates_poll(_, _)
boss_updates_poll(h, b) ==
    LET sub == h.bsubs[b]
    IN IF sub.missed
       THEN boss_updates_poll([h EXCEPT !.bsubs[b].missed = FALSE,
                                        !.bsubs[b].lagged = TRUE], b)
       ELSE IF sub.pending = <<>>
       THEN [h |-> h, outcome |-> "pending"]
       ELSE IF Head(sub.pending) = Dangling
       THEN boss_updates_poll([h EXCEPT !.bsubs[b].pending = Tail(@),
                                        !.bsubs[b].skipped = @ + 1], b)
       ELSE [h |-> [h EXCEPT !.bsubs[b].pending = Tail(@),
                             !.bsubs[b].yielded = @ + 1],
             outcome |-> "item"]

\* ----------------------------------------------------------------- actions
InitHandler ==
    /\ map = EmptyMap
    /\ entries = EmptyMap
    /\ vec = <<>>
    /\ waiting = EmptyMap
    /\ chans = EmptyMap
    /\ subs = EmptyMap
    /\ bsubs = EmptyMap
    /\ pushed = 0
    /\ log = <<>>
    /\ lastOp = [op |-> "init", name |-> None, arg |-> 0, keep |-> 0, discard |-> 0, note |-> <<>>]

InitHash ==
    /\ inbox = <<>>
    /\ requested = EmptyMap
    /\ out_queue = <<>>
    /\ in_flight = <<>>
    /\ output = <<>>
    /\ calls = [n \in Names \cup SnapshotNames |-> 0]
    /\ inbox_open = TRUE
    /\ requests = 0

\* no call of paginate or of the codec, no tweet, no connection yet
Idle == [at |-> "idle"]
InitIdle ==
    /\ page = Idle
    /\ codec = Idle
    /\ tweet = Idle
    /\ conn = Idle
    /\ made = Idle
    /\ race = Idle

Init == InitHandler /\ InitHash /\ InitIdle

\* The next state of the handler is h0 with its addresses renamed; lastOp
\* names the operation unless it left the handler as it was.
Step(h0, op) ==
    \E h \in {Renumber(h0)} :
       /\ map' = h.map
       /\ entries' = h.entries
       /\ vec' = h.vec
       /\ waiting' = h.waiting
       /\ chans' = h.chans
       /\ subs' = h.subs
       /\ bsubs' = h.bsubs
       /\ lastOp' = IF h = Handler /\ op.op # "push" THEN lastOp ELSE op

Raids(id, names, times) ==
    {[tweet_id |-> id, boss_name |-> n, language |-> NameLanguage(n),
      created_at |-> t, image_url |-> u] : n \in names, t \in times, u \in {None, "url"}}

\* history bookkeeping of a push: every Subscription whose boss_name is a name
\* of the entry that took the raid is owed the raid; recreated tells that
\* the boss was evicted while the Subscription was alive
Owe(h, raid) ==
    LET e == h.entries[h.map[raid.boss_name]]
    IN [h EXCEPT !.subs = [s \in DOMAIN h.subs |->
          IF h.subs[s].boss_name \in EntryKeys(e)
          THEN [h.subs[s] EXCEPT !.owed = Append(@,
                   [raid |-> raid,
                    merged |-> e.boss.name.ja # None /\ e.boss.name.en # None,
                    recreated |-> h.subs[s].evicted])]
          ELSE h.subs[s]]]

\* history bookkeeping of a change of a boss (an entry was created, an image
\* was filled in, two entries were merged): every boss-updates stream counts it
Changed(h, is_change) ==
    IF is_change
    THEN [h EXCEPT !.bsubs = [b \in DOMAIN h.bsubs |->
                                 [h.bsubs[b] EXCEPT !.changes = @ + 1]]]
    ELSE h

\* push(raid) creates an entry or fills in an image
PushChanges(raid) ==
    \/ raid.boss_name \notin DOMAIN map
    \/ /\ LangGet(entries[map[raid.boss_name]].boss.image, raid.language) = None
       /\ raid.image_url # None

\* a push of one of the raids; the raid is recorded in log when recorded
PushRaid(names, times, recorded) ==
    /\ pushed < MaxPush
    /\ \E raid \in Raids(pushed + 1, names, times) :
         /\ \E h \in {Changed(Owe(push(Handler, raid, ord), raid), PushChanges(raid)) :
                        ord \in IterOrders} :
               Step(h, [op |-> "push", name |-> raid.boss_name, arg |-> 0,
                        keep |-> 0, discard |-> 0, note |-> <<>>])
         /\ log' = IF recorded THEN Append(log, raid) ELSE log
    /\ pushed' = pushed + 1
    /\ UNCHANGED <<hashVars, queryVars, ingestVars>>

Push(names, times) == PushRaid(names, times, FALSE)

UpdateImageHash(names) ==
    /\ \E n \in names, hash \in Hashes :
         \E other \in find(Handler, n, hash) :
            LET is_japanese == entries[map[n]].boss.name.ja # None
            IN \E h \in {Changed(update_image_hash(Handler, n, hash, other, ord),
                                   other # 0) : ord \in IterOrders} :
                  Step(h, [op |-> "update_image_hash", name |-> n, arg |-> hash,
                           keep |-> IF other = 0 THEN 0
                                    ELSE IF is_japanese THEN map[n] ELSE other,
                           discard |-> IF other = 0 THEN 0
                                       ELSE IF is_japanese THEN other ELSE map[n],
                           note |-> <<>>])
    /\ UNCHANGED <<pushed, log>>
    /\ UNCHANGED <<hashVars, queryVars, ingestVars>>

\* history bookkeeping of a retain: a Subscription still waiting for its
\* first raid has seen a retain since it subscribed, and a Subscription
\* whose boss_name left the map has had its boss evicted
Unsettle(h) ==
    [h EXCEPT !.subs = [s \in DOMAIN h.subs |->
        [h.subs[s] EXCEPT
           !.early = IF h.subs[s].owed = <<>> THEN FALSE ELSE @,
           !.evicted = IF /\ h.subs[s].boss_name \in DOMAIN map
                          /\ h.subs[s].boss_name \notin DOMAIN h.map
                       THEN TRUE ELSE @]]]

\* the cleanup tick; a cutoff of 0 is older than every raid
Retain(times) ==
    /\ \E t \in {0} \cup times :
         \E h \in {Unsettle(retain(Handler, t, ord)) : ord \in IterOrders} :
            Step(h, [op |-> "retain", name |-> None, arg |-> t, keep |-> 0, discard |-> 0, note |-> <<>>])
    /\ UNCHANGED <<pushed, log>>
    /\ UNCHANGED <<hashVars, queryVars, ingestVars>>

Subscribe(names) ==
    /\ \E s \in SubIds \ DOMAIN subs, n \in names :
         LET h1 == subscribe_handler(Handler, n)
         IN Step([h1 EXCEPT !.subs = Put(@, s, NewSubscription(Handler, n))],
                 [op |-> "subscribe", name |-> n, arg |-> s, keep |-> 0, discard |-> 0, note |-> <<>>])
    /\ UNCHANGED <<pushed, log>>
    /\ UNCHANGED <<hashVars, queryVars, ingestVars>>

Poll ==
    /\ \E s \in DOMAIN subs :
         \E r \in {poll_next(Handler, s)} :
            Step(r.h, [op |-> "poll", name |-> subs[s].boss_name, arg |-> s,
                       keep |-> 0, discard |-> 0,
                       note |-> <<r.outcome, r.resubscribed, r.lagged>>])
    /\ UNCHANGED <<pushed, log>>
    /\ UNCHANGED <<hashVars, queryVars, ingestVars>>

\* the consumer drops the Subscription
DropSubscription ==
    /\ \E s \in DOMAIN subs :
         Step(Drop([Handler EXCEPT !.subs = Remove(@, s)]),
              [op |-> "drop", name |-> subs[s].boss_name, arg |-> s,
               keep |-> 0, discard |-> 0, note |-> <<>>])
    /\ UNCHANGED <<pushed, log>>
    /\ UNCHANGED <<hashVars, queryVars, ingestVars>>

SubscribeBossUpdates ==
    /\ \E b \in BossSubIds \ DOMAIN bsubs :
         Step([Handler EXCEPT !.bsubs = Put(@, b, NewBossUpdates)],
              [op |-> "subscribe_boss_updates", name |-> None, arg |-> b,
               keep |-> 0, discard |-> 0, note |-> <<>>])
    /\ UNCHANGED <<pushed, log>>
    /\ UNCHANGED <<hashVars, queryVars, ingestVars>>

PollBossUpdates ==
    /\ \E b \in DOMAIN bsubs :
         \E r \in {boss_updates_poll(Handler, b)} :
            Step(r.h, [op |-> "poll_boss_updates", name |-> None, arg |-> b,
                       keep |-> 0, discard |-> 0, note |-> <<r.outcome>>])
    /\ UNCHANGED <<pushed, log>>
    /\ UNCHANGED <<hashVars, queryVars, ingestVars>>

\* The handler with its subscriptions, over one Japanese and one English
\* name.
Next ==
    \/ Push(PairNames, PairTimes)
    \/ UpdateImageHash(PairNames)
    \/ Retain(PairTimes)
    \/ Subscribe(PairNames)
    \/ Poll
    \/ DropSubscription

Spec == Init /\ [][Next]_vars

\* The registry alone (no Subscription is created), over all names.
NextRegistry ==
    \/ Push(Names, Times)
    \/ UpdateImageHash(Names)
    \/ Retain(Times)

SpecRegistry == Init /\ [][NextRegistry]_vars

\* The registry over names of two levels.
NextSnapshot ==
    \/ Push(SnapshotNames, Times)
    \/ UpdateImageHash(SnapshotNames)
    \/ Retain(Times)

SpecSnapshot == Init /\ [][NextSnapshot]_vars

\* The handler with a consumer of subscribe_boss_updates.
NextUpdates ==
    \/ Push(PairNames, PairTimes)
    \/ UpdateImageHash(PairNames)
    \/ Retain(PairTimes)
    \/ SubscribeBossUpdates
    \/ PollBossUpdates

SpecUpdates == Init /\ [][NextUpdates]_vars

\* Pushes alone, with one more time stamp than a history holds and the
\* pushed raids recorded.
HistoryTimes == 1..(HistorySize + 1)
NextHistory == PushRaid(PairNames, HistoryTimes, TRUE)

SpecHistory == Init /\ [][NextHistory]_vars

\* The registry with a Subscription that is never polled, over two time
\* stamps.
NextRetain ==
    \/ Push(PairNames, Times)
    \/ UpdateImageHash(PairNames)
    \/ Retain(Times)
    \/ Subscribe(PairNames)
    \/ DropSubscription

SpecRetain == Init /\ [][NextRetain]_vars

\* The handler with a Subscription and a consumer of
\* subscribe_boss_updates, neither of them polled.
NextPush ==
    \/ Push(PairNames, Times)
    \/ UpdateImageHash(PairNames)
    \/ Subscribe(PairNames)
    \/ SubscribeBossUpdates

SpecPush == Init /\ [][NextPush]_vars

\* ------------------------------------------------------------ cleanup task
\* Boss::needs_image_hash_update
needs_image_hash_update(boss) ==
    boss.image_hash = NoHash /\ Canonical(boss.image) # None

\* Inbox::request_hash_for_boss: the requests sent, Japanese then English
request_hash_for_boss(boss) ==
    (IF boss.name.ja # None /\ boss.image.ja # None
     THEN <<[boss_name |-> boss.name.ja, uri |-> boss.image.ja]>> ELSE <<>>)
    \o (IF boss.name.en # None /\ boss.image.en # None
        THEN <<[boss_name |-> boss.name.en, uri |-> boss.image.en]>> ELSE <<>>)

\* the (name, entry) pairs the retain of the handler calls the closure of
\* the cleanup task on: every pair of the map, once
retain_visits(h, ord) == IterKeys(h, ord)

\* the requests the closure of the cleanup task sends while retain calls it
\* on the pairs of the map: whether the entry is kept is decided after the
\* request
RECURSIVE closure_requests(_, _)
closure_requests(h, keys) ==
    IF keys = <<>> THEN <<>>
    ELSE LET boss == h.entries[h.map[Head(keys)]].boss
         IN (IF needs_image_hash_update(boss)
             THEN request_hash_for_boss(boss) ELSE <<>>)
            \o closure_requests(h, Tail(keys))

\* one tick of the cleanup task with long_ago = t
CleanupTick(times) ==
    /\ requests < MaxRequests
    /\ \E t \in {0} \cup times, ord \in IterOrders :
         LET sent == closure_requests(Handler, retain_visits(Handler, ord))
         IN /\ \E h \in {Renumber(Unsettle(retain(Handler, t, ord)))} :
                  /\ map' = h.map
                  /\ entries' = h.entries
                  /\ vec' = h.vec
                  /\ waiting' = h.waiting
                  /\ chans' = h.chans
                  /\ subs' = h.subs
                  /\ bsubs' = h.bsubs
            /\ lastOp' = [op |-> "cleanup", name |-> None, arg |-> t,
                          keep |-> 0, discard |-> 0, note |-> sent]
            /\ inbox' = inbox \o sent
            /\ requests' = requests + Len(sent)
    /\ UNCHANGED <<pushed, log>>
    /\ UNCHANGED <<requested, out_queue, in_flight, output, calls, inbox_open>>
    /\ UNCHANGED <<queryVars, ingestVars>>

\* The registry with the cleanup task, over one Japanese and one English
\* name.
NextCleanup ==
    \/ Push(PairNames, Times)
    \/ UpdateImageHash(PairNames)
    \/ CleanupTick(Times)

SpecCleanup == Init /\ [][NextCleanup]_vars

\* ------------------------------------------------------- image-hash worker
\* The worker and the buffered output are both polled by the single consumer
\* of the output stream (futures::stream::select), so the steps below do not
\* overlap.
RemoveAt(q, i) == SubSeq(q, 1, i - 1) \o SubSeq(q, i + 1, Len(q))

\* Inbox::request_hash
RequestHash ==
    /\ inbox_open
    /\ requests < MaxRequests
    /\ \E n \in PairNames, u \in Uris :
         inbox' = Append(inbox, [boss_name |-> n, uri |-> u])
    /\ requests' = requests + 1
    /\ UNCHANGED <<requested, out_queue, in_flight, output, calls, inbox_open>>
    /\ UNCHANGED <<handlerVars, queryVars, ingestVars>>

\* the last Inbox handle is dropped
DropInbox ==
    /\ inbox_open
    /\ inbox_open' = FALSE
    /\ UNCHANGED <<inbox, requested, out_queue, in_flight, output, calls, requests>>
    /\ UNCHANGED <<handlerVars, queryVars, ingestVars>>

\* faulty variant of Submits: a boss whose fetch failed is not retried
SubmitsOnce(st) == st = "Absent"
\* faulty variant of Submits: a Pending boss is submitted again
SubmitsWhilePending(st) == st # "Success"
\* whether the worker submits a fetch for a boss whose state is st
\* ("Absent" when requested has no entry)
Submits(st) == st \in {"Absent", "Failure"}

\* Either::Right(future): the future that calls image_hasher.hash(uri) and
\* stores the outcome
FetchFuture(req) ==
    [kind |-> "fetch", boss_name |-> req.boss_name, uri |-> req.uri,
     image_hash |-> NoHash]

\* faulty variant of ReadyFuture: the hash is fetched again
ReadyFutureRefetch(req, image_hash) == FetchFuture(req)
\* Either::Left(future::ready(hash)): the stored hash, ready at once; uri
\* records the request it answers
ReadyFuture(req, image_hash) ==
    [kind |-> "ready", boss_name |-> req.boss_name, uri |-> req.uri,
     image_hash |-> image_hash]

\* one iteration of the worker loop on the request it received
Worker ==
    /\ inbox # <<>>
    /\ LET req == Head(inbox)
           st == IF req.boss_name \in DOMAIN requested
                 THEN requested[req.boss_name].state ELSE "Absent"
       IN IF Submits(st)
          THEN /\ requested' = Put(requested, req.boss_name,
                                   [state |-> "Pending", image_hash |-> NoHash])
               /\ out_queue' = Append(out_queue, FetchFuture(req))
          ELSE IF st = "Success"
          THEN /\ out_queue' = Append(out_queue,
                      ReadyFuture(req, requested[req.boss_name].image_hash))
               /\ UNCHANGED requested
          ELSE UNCHANGED <<requested, out_queue>>
    /\ inbox' = Tail(inbox)
    /\ UNCHANGED <<in_flight, output, calls, inbox_open, requests>>
    /\ UNCHANGED <<handlerVars, queryVars, ingestVars>>

\* buffer_unordered takes the next future while fewer than Concurrency are
\* in progress, and polls it: a fetch future calls the hasher
StartFuture ==
    /\ out_queue # <<>>
    /\ Len(in_flight) < Concurrency
    /\ LET f == Head(out_queue)
       IN /\ in_flight' = Append(in_flight, f)
          /\ calls' = IF f.kind = "fetch"
                      THEN [calls EXCEPT ![f.boss_name] = @ + 1] ELSE calls
    /\ out_queue' = Tail(out_queue)
    /\ UNCHANGED <<inbox, requested, output, inbox_open, requests>>
    /\ UNCHANGED <<handlerVars, queryVars, ingestVars>>

\* faulty variant of FetchState: a failed fetch leaves the boss Pending
FetchStateSuccessOnly(ok, hash) ==
    IF ok THEN [state |-> "Success", image_hash |-> hash]
    ELSE [state |-> "Pending", image_hash |-> NoHash]
\* the State the fetch future stores for the answer of the hasher
FetchState(ok, hash) ==
    IF ok THEN [state |-> "Success", image_hash |-> hash]
    ELSE [state |-> "Failure", image_hash |-> NoHash]

\* a future in progress completes and its BossImageHash is yielded; the
\* hasher answers a fetch with Ok(hash) or with an error
CompleteFuture ==
    /\ \E i \in 1..Len(in_flight) :
         LET f == in_flight[i]
         IN /\ in_flight' = RemoveAt(in_flight, i)
            /\ IF f.kind = "ready"
               THEN /\ output' = Append(output, [boss_name |-> f.boss_name, ok |-> TRUE,
                                                 image_hash |-> f.image_hash])
                    /\ UNCHANGED requested
               ELSE \E ok \in BOOLEAN, hash \in Hashes :
                       /\ requested' = Put(requested, f.boss_name,
                                           FetchState(ok, hash))
                       /\ output' = Append(output, [boss_name |-> f.boss_name, ok |-> ok,
                              image_hash |-> IF ok THEN hash ELSE NoHash])
    /\ UNCHANGED <<inbox, out_queue, calls, inbox_open, requests>>
    /\ UNCHANGED <<handlerVars, queryVars, ingestVars>>

NextHash ==
    \/ RequestHash
    \/ DropInbox
    \/ Worker
    \/ StartFuture
    \/ CompleteFuture

SpecHash == Init /\ [][NextHash]_vars

\* The consumer keeps polling the output stream and every call of the
\* hasher returns: the worker, the buffer and the futures in progress are
\* each polled again while they can make a step.
SpecHashLive ==
    /\ Init
    /\ [][NextHash]_vars
    /\ WF_vars(Worker)
    /\ WF_vars(StartFuture)
    /\ WF_vars(CompleteFuture)

\* faulty variant of WorkerDone: the worker ends when it finds no request
WorkerDoneWhenIdle == inbox = <<>>
\* rx_in.recv() returns None and the worker loop ends, dropping tx_out: every
\* Inbox handle is gone and every request sent has been received
WorkerDone == ~inbox_open /\ inbox = <<>>

\* the select of the buffered futures and the worker is exhausted: the
\* worker has ended, and rx_out, closed by then, and the buffer are empty
OutputEnded == WorkerDone /\ out_queue = <<>> /\ in_flight = <<>>

\* ------------------------------------------------------------------- codec
\* Strings are sequences of bytes (their UTF-8 form); a base58 string is the
\* sequence of the positions of its characters in the bs58 alphabet.
MaxNameLen == 3
MaxTweetId == 60
\* ':' 'a' '/' and 's'
NameBytes == {58, 97, 47, 115}
\* "boss"
BossTag == <<98, 111, 115, 115>>
Colon == 58
\* tweet ids: small ones, and ones that fill one, two, three and four bytes
TweetIds == (0..MaxTweetId) \cup {255, 256, 65535, 65536, 16777216, 2147483647}
\* size_of::<u64>()
U64Bytes == 8

RECURSIVE SeqsUpTo(_, _)
SeqsUpTo(S, n) ==
    IF n = 0 THEN {<<>>}
    ELSE LET shorter == SeqsUpTo(S, n - 1)
         IN shorter \cup {Append(q, x) : q \in shorter, x \in S}

Reverse(q) == [i \in 1..Len(q) |-> q[Len(q) + 1 - i]]

RECURSIVE LeadingZeros(_)
LeadingZeros(q) == IF q = <<>> \/ Head(q) # 0 THEN 0 ELSE 1 + LeadingZeros(Tail(q))

\* One step of the base conversion of bs58: the number held in digits
\* (least significant first, base to) is multiplied by from and carry is
\* added.
RECURSIVE MulAdd(_, _, _, _)
MulAdd(digits, carry, from, to) ==
    IF digits = <<>>
    THEN IF carry = 0 THEN <<>>
         ELSE <<carry % to>> \o MulAdd(<<>>, carry \div to, from, to)
    ELSE LET v == Head(digits) * from + carry
         IN <<v % to>> \o MulAdd(Tail(digits), v \div to, from, to)

RECURSIVE Convert(_, _, _, _)
Convert(input, digits, from, to) ==
    IF input = <<>> THEN digits
    ELSE Convert(Tail(input), MulAdd(digits, Head(input), from, to), from, to)

\* bs58::encode(bytes).into_string(): the number in base 58, most significant
\* digit first, after one '1' (digit 0) for every leading zero byte
bs58_encode(bytes) ==
    [i \in 1..LeadingZeros(bytes) |-> 0] \o Reverse(Convert(bytes, <<>>, 256, 58))

\* bs58::decode(string).into_vec()
bs58_decode(string) ==
    [i \in 1..LeadingZeros(string) |-> 0] \o Reverse(Convert(string, <<>>, 58, 256))

\* postcard::to_allocvec of a TweetCursor: the bytes of its one u64 field,
\* least significant first
RECURSIVE le_bytes(_, _)
le_bytes(n, count) ==
    IF count = 0 THEN <<>> ELSE <<n % 256>> \o le_bytes(n \div 256, count - 1)

\* the u64 whose bytes, least significant first, are given
RECURSIVE from_le_bytes(_)
from_le_bytes(bytes) ==
    IF bytes = <<>> THEN 0 ELSE Head(bytes) + 256 * from_le_bytes(Tail(bytes))

\* Cursor::to_scalar_string
to_scalar_string(cursor) == bs58_encode(le_bytes(cursor.tweet_id, U64Bytes))

\* Cursor::from_scalar_string: Some(cursor) as <<cursor>>, None as <<>>
from_scalar_string(value) ==
    LET bytes == bs58_decode(value)
    IN IF Len(bytes) < U64Bytes THEN <<>>
       ELSE <<[tweet_id |-> from_le_bytes(SubSeq(bytes, 1, U64Bytes))]>>

\* faulty variant of node_id_from_str: the name ends at its first ':'
node_id_from_str_split(input) ==
    LET decoded == bs58_decode(input)
        colons == {i \in 1..Len(decoded) : decoded[i] = Colon}
        first == IF colons = {} THEN Len(decoded) + 1 ELSE MinOf(colons)
        rest == SubSeq(decoded, first + 1, Len(decoded))
        more == {i \in 1..Len(rest) : rest[i] = Colon}
    IN IF colons # {} /\ SubSeq(decoded, 1, first - 1) = BossTag
       THEN <<[boss |-> IF more = {} THEN rest ELSE SubSeq(rest, 1, MinOf(more) - 1)]>>
       ELSE <<>>
\* NodeId::to_string
node_id_to_string(id) == bs58_encode(BossTag \o <<Colon>> \o id.boss)

\* NodeId::from_str: Ok(id) as <<id>>, Err(()) as <<>>; splitn(2, ':') cuts
\* the decoded string at its first ':' only
node_id_from_str(input) ==
    LET decoded == bs58_decode(input)
        colons == {i \in 1..Len(decoded) : decoded[i] = Colon}
        first == IF colons = {} THEN Len(decoded) + 1 ELSE MinOf(colons)
    IN IF colons # {} /\ SubSeq(decoded, 1, first - 1) = BossTag
       THEN <<[boss |-> SubSeq(decoded, first + 1, Len(decoded))]>>
       ELSE <<>>

\* a cursor or a node id is about to be encoded
InitCodec ==
    /\ InitHandler /\ InitHash /\ page = Idle /\ tweet = Idle /\ conn = Idle /\ made = Idle /\ race = Idle
    /\ codec \in {[at |-> "value", kind |-> "cursor", value |-> [tweet_id |-> t]] :
                     t \in TweetIds}
            \cup {[at |-> "value", kind |-> "node", value |-> [boss |-> name]] :
                     name \in SeqsUpTo(NameBytes, MaxNameLen)}

Encode ==
    /\ codec.at = "value"
    /\ codec' = [at |-> "encoded", kind |-> codec.kind, value |-> codec.value,
                 encoded |-> IF codec.kind = "cursor"
                             THEN to_scalar_string(codec.value)
                             ELSE node_id_to_string(codec.value)]
    /\ UNCHANGED <<handlerVars, hashVars, page, ingestVars>>

Decode ==
    /\ codec.at = "encoded"
    /\ codec' = [at |-> "decoded", kind |-> codec.kind, value |-> codec.value,
                 encoded |-> codec.encoded,
                 decoded |-> IF codec.kind = "cursor"
                             THEN from_scalar_string(codec.encoded)
                             ELSE node_id_from_str(codec.encoded)]
    /\ UNCHANGED <<handlerVars, hashVars, page, ingestVars>>

NextCodec == Encode \/ Decode

SpecCodec == InitCodec /\ [][NextCodec]_vars

\* -------------------------------------------------------------- pagination
\* An Option is a sequence: <<>> for None, <<x>> for Some(x).  An edge is a
\* raid, of which the cursor reads the tweet id only; it is modelled as that
\* tweet id.
MaxEdges == 3
EdgeIds == 1..MaxEdges
\* the cursors of the edge ids, and one that matches no edge
CursorArgs == {<<>>} \cup {<<[tweet_id |-> t]>> : t \in 1..(MaxEdges + 1)}
\* first / last: absent, negative, zero, within and beyond the length
CountArgs == {<<>>} \cup {<<n>> : n \in {0 - 1, 0, 1, 2, MaxEdges + 1}}

\* TweetCursor::from_edge
from_edge(edge) == [tweet_id |-> edge]
\* TweetCursor::matches_edge
matches_edge(cursor, edge) == cursor.tweet_id = edge

\* the position of the first edge the cursor matches, Len + 1 without one
FirstMatch(cursor, edges) ==
    LET m == {i \in 1..Len(edges) : matches_edge(cursor, edges[i])}
    IN IF m = {} THEN Len(edges) + 1 ELSE MinOf(m)

\* faulty variant of first_or_last: a negative count is taken as zero
first_or_last_clamped(first, last) ==
    IF first = <<>> /\ last = <<>>
    THEN [err |-> "Either first or last must be specified"]
    ELSE IF first # <<>> /\ last # <<>>
    THEN [err |-> "Only one of first or last should be specified"]
    ELSE IF first # <<>>
    THEN [err |-> "", kind |-> "First", count |-> MaxInt(first[1], 0)]
    ELSE [err |-> "", kind |-> "Last", count |-> MaxInt(last[1], 0)]
\* the match on (first, last): an error message, or First(count) / Last(count)
first_or_last(first, last) ==
    IF first = <<>> /\ last = <<>>
    THEN [err |-> "Either first or last must be specified"]
    ELSE IF first # <<>> /\ last # <<>>
    THEN [err |-> "Only one of first or last should be specified"]
    ELSE IF first # <<>> /\ first[1] >= 0
    THEN [err |-> "", kind |-> "First", count |-> first[1]]
    ELSE IF last # <<>> /\ last[1] >= 0
    THEN [err |-> "", kind |-> "Last", count |-> last[1]]
    ELSE [err |-> "first and last must be non-negative"]

\* faulty variant of skip_after: an after that matches nothing skips nothing
skip_after_if_found(edges, after) ==
    IF after = <<>> \/ FirstMatch(after[1], edges) > Len(edges) THEN 0
    ELSE FirstMatch(after[1], edges)
\* the scan for after: the number of edges consumed (the matching edge
\* included; all of them when none matches)
skip_after(edges, after) ==
    IF after = <<>> THEN 0
    ELSE LET i == FirstMatch(after[1], edges)
         IN IF i > Len(edges) THEN Len(edges) ELSE i

\* faulty variant of take_first: the edge matching before is taken too
take_first_through(rest, count, before) ==
    IF before = <<>> THEN SubSeq(rest, 1, MinOf({count, Len(rest)}))
    ELSE SubSeq(rest, 1, MinOf({count, FirstMatch(before[1], rest), Len(rest)}))
\* the arms for First(count): the edges taken from the rest
take_first(rest, count, before) ==
    IF before = <<>> THEN SubSeq(rest, 1, MinOf({count, Len(rest)}))
    ELSE SubSeq(rest, 1, MinOf({count, FirstMatch(before[1], rest) - 1}))

\* faulty variant of take_last: the first count candidates are kept
take_last_leading(rest, count, before, remaining_edges) ==
    LET out == IF before = <<>> THEN rest
               ELSE SubSeq(rest, 1, FirstMatch(before[1], rest) - 1)
    IN [skip_n |-> 0, out |-> SubSeq(out, 1, MinOf({count, Len(out)}))]
\* the arms for Last(count): the number of edges dropped in front (added to
\* skipped) and the edges kept
take_last(rest, count, before, remaining_edges) ==
    IF before = <<>>
    THEN LET skip_n == IF count > remaining_edges THEN 0 ELSE remaining_edges - count
         IN [skip_n |-> skip_n, out |-> SubSeq(rest, skip_n + 1, Len(rest))]
    ELSE LET out == SubSeq(rest, 1, FirstMatch(before[1], rest) - 1)
         IN IF Len(out) <= count THEN [skip_n |-> 0, out |-> out]
            ELSE [skip_n |-> Len(out) - count,
                  out |-> SubSeq(out, Len(out) - count + 1, Len(out))]

\* faulty variant of page_info: a next page is announced whenever the output
\* is shorter than the sequence
page_info_short(output_edges, skipped, total_edges_length) ==
    [has_previous_page |-> skipped > 0,
     has_next_page |-> Len(output_edges) < total_edges_length,
     start_cursor |-> IF output_edges = <<>> THEN <<>>
                      ELSE <<to_scalar_string(from_edge(output_edges[1]))>>,
     end_cursor |-> IF output_edges = <<>> THEN <<>>
                    ELSE <<to_scalar_string(from_edge(output_edges[Len(output_edges)]))>>]
\* PageInfo { .. } as paginate builds it
page_info(output_edges, skipped, total_edges_length) ==
    [has_previous_page |-> skipped > 0,
     has_next_page |-> Len(output_edges) + skipped < total_edges_length,
     start_cursor |-> IF output_edges = <<>> THEN <<>>
                      ELSE <<to_scalar_string(from_edge(output_edges[1]))>>,
     end_cursor |-> IF output_edges = <<>> THEN <<>>
                    ELSE <<to_scalar_string(from_edge(output_edges[Len(output_edges)]))>>]

\* Cursor::paginate (map_fn is the identity)
paginate(edges, total_edges_length, first, after, last, before) ==
    LET fl == first_or_last(first, last)
    IN IF fl.err # "" THEN [ok |-> FALSE, err |-> fl.err]
       ELSE
         LET skipped == skip_after(edges, after)
             rest == SubSeq(edges, skipped + 1, Len(edges))
             remaining_edges == total_edges_length - skipped
         IN IF fl.kind = "First"
            THEN LET out == take_first(rest, fl.count, before)
                 IN [ok |-> TRUE, edges |-> out,
                     page_info |-> page_info(out, skipped, total_edges_length)]
            ELSE LET l == take_last(rest, fl.count, before, remaining_edges)
                 IN [ok |-> TRUE, edges |-> l.out,
                     page_info |-> page_info(l.out, skipped + l.skip_n,
                                             total_edges_length)]

\* a call of paginate is about to be made; total_edges_length is the length
\* of the sequence, as every caller passes it
InitPage ==
    /\ InitHandler /\ InitHash /\ codec = Idle /\ tweet = Idle /\ conn = Idle /\ made = Idle /\ race = Idle
    /\ page \in {[at |-> "call", edges |-> e, first |-> f, after |-> a,
                   last |-> l, before |-> b] :
                    e \in SeqsUpTo(EdgeIds, MaxEdges), f \in CountArgs, l \in CountArgs,
                    a \in CursorArgs, b \in CursorArgs}

Paginate ==
    /\ page.at = "call"
    /\ page' = [at |-> "returned", edges |-> page.edges, first |-> page.first,
                after |-> page.after, last |-> page.last, before |-> page.before,
                result |-> paginate(page.edges, Len(page.edges), page.first,
                                    page.after, page.last, page.before)]
    /\ UNCHANGED <<handlerVars, hashVars, codec, ingestVars>>

NextPaginate == Paginate

SpecPaginate == InitPage /\ [][NextPaginate]_vars

\* ------------------------------------------------------------ tweet parser
\* A tweet text is a sequence of pieces, each standing for a fixed string:
\*   "id"  eight upper-case hexadecimal digits (ABCD1234)
\*   "ja"  the Japanese marker: space, colon, the battle id label, newline,
\*         the call for participants, newline
\*   "en"  the English marker " :Battle ID\nI need backup!\n"
\*   "w"   a word without space, newline, '&' or "http" (Lv60)
\*   "sp"  one space      "nl"  one newline
\*   "url" an address http://example.com/image.png
\* No piece holds '&', so html_decode returns its argument borrowed.
MaxBody == 6
Pieces == {"id", "ja", "en", "w", "sp", "nl", "url"}
GRANBLUE_APP_SOURCE == "granbluefantasy.jp"
Sources == {GRANBLUE_APP_SOURCE, "Twitter Web App"}
Users ==
    {[screen_name |-> "walfieee", default_profile_image |-> FALSE,
      profile_image_url_https |-> "profile_images/1.png"],
     [screen_name |-> "walfieee", default_profile_image |-> FALSE,
      profile_image_url_https |-> "default_profile_images/0.png"],
     [screen_name |-> "walfieee", default_profile_image |-> TRUE,
      profile_image_url_https |-> "profile_images/1.png"]}
Medias == {<<>>, <<"media/raid.jpg">>}

\* the lines of a marker: the label (it starts with a space), a newline,
\* the call (the English one holds spaces), a newline
JapaneseMarker == <<"jaKey", "nl", "jaCall", "nl">>
EnglishMarker == <<"enKey", "nl", "enCall", "nl">>

\* the text as the regexes see it: markers split at their newlines
RECURSIVE Lines(_)
Lines(text) ==
    IF text = <<>> THEN <<>>
    ELSE (CASE text[1] = "ja" -> JapaneseMarker
            [] text[1] = "en" -> EnglishMarker
            [] OTHER -> <<text[1]>>) \o Lines(Tail(text))

\* what (?P<name>.+) or (?P<name>.*) without the s flag captures from
\* position from on: every character up to the next newline
RECURSIVE RestOfLine(_, _)
RestOfLine(s, from) ==
    IF from > Len(s) \/ s[from] = "nl" THEN <<>>
    ELSE <<s[from]>> \o RestOfLine(s, from + 1)

\* Regex::captures for  (?P<text>(?s).*)(?P<id>[0-9A-F]{8})MARKER
\* (?P<boss>.+)\n?(?P<url>.*) : the greedy text group makes the id the LAST
\* one that is followed by the marker and one more character of that line;
\* boss is the rest of that line, url the whole next line. <<>> is None.
captures(marker, tweet_text) ==
    LET s == Lines(tweet_text)
        starts == {p \in 1..Len(s) :
                     /\ s[p] = "id"
                     /\ p + 5 <= Len(s)
                     /\ SubSeq(s, p + 1, p + 4) = marker
                     /\ s[p + 5] # "nl"}
    IN IF starts = {} THEN <<>>
       ELSE LET p == CHOOSE x \in starts : \A y \in starts : y <= x
                boss == RestOfLine(s, p + 5)
                q == p + 5 + Len(boss)
            IN <<[text |-> SubSeq(s, 1, p - 1),
                  id |-> s[p],
                  boss |-> boss,
                  url |-> RestOfLine(s, q + 1)]>>

REGEX_JAPANESE(tweet_text) == captures(JapaneseMarker, tweet_text)

REGEX_ENGLISH(tweet_text) == captures(EnglishMarker, tweet_text)

\* the piece holds a space character
HasSpace(piece) == piece \in {"sp", "jaKey", "enKey", "enCall"}

\* ^https?://[^ ]+$ on a captured line
REGEX_IMAGE_URL(url_str) ==
    /\ url_str # <<>>
    /\ url_str[1] = "url"
    /\ \A i \in 1..Len(url_str) : ~HasSpace(url_str[i])

\* str::contains("http")
contains_http(line) == \E i \in 1..Len(line) : line[i] = "url"

\* str::trim: white space at both ends goes; a label loses its first space
RECURSIVE trim_start(_)
trim_start(line) ==
    IF line = <<>> THEN line
    ELSE IF line[1] \in {"sp", "nl"} THEN trim_start(Tail(line))
    ELSE IF line[1] = "jaKey" THEN <<"jaKeyTrimmed">> \o Tail(line)
    ELSE IF line[1] = "enKey" THEN <<"enKeyTrimmed">> \o Tail(line)
    ELSE line

RECURSIVE trim_end(_)
trim_end(line) ==
    IF line = <<>> THEN line
    ELSE IF line[Len(line)] \in {"sp", "nl"}
         THEN trim_end(SubSeq(line, 1, Len(line) - 1))
    ELSE line

trim(line) == trim_end(trim_start(line))

html_decode(text) == text

\* the condition of the early return of parse_text, with the url gate left
\* out
rejected_boss_only(boss_name_raw, url_str) == contains_http(boss_name_raw)

\* the condition of the early return of parse_text
rejected(boss_name_raw, url_str) ==
    \/ contains_http(boss_name_raw)
    \/ url_str # <<>> /\ ~REGEX_IMAGE_URL(url_str)

\* <<>> is None, <<parts>> is Some(TextParts)
parse_text(tweet_text) ==
    LET ja == REGEX_JAPANESE(tweet_text)
        found == IF ja # <<>> THEN <<[lang |-> "Japanese", c |-> ja[1]]>>
                 ELSE LET en == REGEX_ENGLISH(tweet_text)
                      IN IF en # <<>>
                         THEN <<[lang |-> "English", c |-> en[1]]>>
                         ELSE <<>>
    IN IF found = <<>> THEN <<>>
       ELSE LET c == found[1].c
                boss_name_raw == trim(c.boss)
                t == trim(c.text)
            IN IF rejected(boss_name_raw, c.url) THEN <<>>
               ELSE <<[language |-> found[1].lang,
                       text |-> IF t = <<>> THEN <<>> ELSE <<html_decode(t)>>,
                       raid_id |-> trim(<<c.id>>),
                       boss_name |-> html_decode(boss_name_raw)]>>

\* Raid::try_from(tweet): <<>> is Err(()), <<raid>> is Ok(raid)
try_from(t) ==
    IF t.source # GRANBLUE_APP_SOURCE THEN <<>>
    ELSE LET parsed == parse_text(t.text)
         IN IF parsed = <<>> THEN <<>>
            ELSE <<[id |-> parsed[1].raid_id,
                    tweet_id |-> t.id,
                    boss_name |-> parsed[1].boss_name,
                    user_name |-> t.user.screen_name,
                    user_image |->
                        IF \/ t.user.default_profile_image
                           \/ t.user.profile_image_url_https
                                  = "default_profile_images/0.png"
                        THEN <<>>
                        ELSE <<t.user.profile_image_url_https>>,
                    text |-> parsed[1].text,
                    created_at |-> t.created_at,
                    language |-> parsed[1].language,
                    image_url |-> t.media]>>

InitParse ==
    /\ InitHandler /\ InitHash /\ page = Idle /\ codec = Idle /\ conn = Idle /\ made = Idle /\ race = Idle
    /\ tweet \in [at : {"received"}, id : {1}, created_at : {1},
                  text : SeqsUpTo(Pieces, MaxBody), user : Users,
                  media : Medias, source : Sources]

TryFrom ==
    /\ tweet.at = "received"
    /\ tweet' = [at |-> "converted", id |-> tweet.id,
                 created_at |-> tweet.created_at, text |-> tweet.text,
                 user |-> tweet.user, media |-> tweet.media,
                 source |-> tweet.source, result |-> try_from(tweet)]
    /\ UNCHANGED <<handlerVars, hashVars, queryVars, conn, made, race>>

NextParse == TryFrom

SpecParse == InitParse /\ [][NextParse]_vars

\* ------------------------------------------------------- reconnect worker
\* connect_with_retries: the worker future and the consumer of the raid
\* stream. conn.at is the await the worker is suspended at: "connect"
\* (connect(..).await), "stream" (timeout(stream.next()).await), "delay"
\* (delay_for(retry_delay).await), or "done" (the future returned
\* conn.error). rx_open tells that the consumer still holds the raid stream.
\* attempts, connected, reads and event are history: the calls of connect
\* made, those that returned a stream, the results of stream.next() seen,
\* and the last result matched.
MaxRetries == 3
MaxReads == 3
TOO_MANY_REQUESTS == 429
Statuses == {401, 403, 404, 420, 429, 500, 503}
NoError == [kind |-> "None", status |-> 0]

is_client_error(status) == 400 <= status /\ status < 500

\* only 429 among the client errors is retried
is_retryable_429_only(status) ==
    IF is_client_error(status) THEN status = TOO_MANY_REQUESTS ELSE TRUE

is_retryable(status) ==
    IF is_client_error(status)
    THEN status = TOO_MANY_REQUESTS \/ status = 420
    ELSE TRUE

InitConnect ==
    /\ InitHandler /\ InitHash /\ page = Idle /\ codec = Idle /\ tweet = Idle /\ made = Idle /\ race = Idle
    /\ conn = [at |-> "connect", retry_count |-> 0, rx_open |-> TRUE,
               sent |-> 0, error |-> NoError, attempts |-> 0, reads |-> 0,
               connected |-> 0, event |-> "start", status |-> 0]

\* connect(..) returned Ok(stream)
ConnectOk ==
    /\ conn.at = "connect"
    /\ conn' = [conn EXCEPT !.at = "stream", !.attempts = @ + 1,
                            !.connected = @ + 1,
                            !.event = "connected", !.status = 0]
    /\ UNCHANGED <<handlerVars, hashVars, queryVars, tweet, made, race>>

\* connect(..) returned Err(Http(status))
ConnectHttp(status) ==
    /\ conn.at = "connect"
    /\ conn' =
          IF is_retryable(status) \/ conn.retry_count # 0
          THEN [conn EXCEPT !.at = "delay", !.attempts = @ + 1,
                            !.event = "http", !.status = status]
          ELSE [conn EXCEPT !.at = "done", !.attempts = @ + 1,
                            !.event = "http", !.status = status,
                            !.error = [kind |-> "Http", status |-> status]]
    /\ UNCHANGED <<handlerVars, hashVars, queryVars, tweet, made, race>>

\* connect(..) returned another error
ConnectError ==
    /\ conn.at = "connect"
    /\ conn' = [conn EXCEPT !.at = "delay", !.attempts = @ + 1,
                            !.event = "transport", !.status = 0]
    /\ UNCHANGED <<handlerVars, hashVars, queryVars, tweet, made, race>>

\* the timeout elapsed before stream.next() returned
ReadTimeout ==
    /\ conn.at = "stream"
    /\ conn.reads < MaxReads
    /\ conn' = [conn EXCEPT !.at = "delay", !.reads = @ + 1,
                            !.event = "timeout"]
    /\ UNCHANGED <<handlerVars, hashVars, queryVars, tweet, made, race>>

\* stream.next() returned Some(Ok(raid)): tx.send fails when the receiver
\* is gone
ReadRaid ==
    /\ conn.at = "stream"
    /\ conn.reads < MaxReads
    /\ conn' =
          IF conn.rx_open
          THEN [conn EXCEPT !.sent = @ + 1, !.reads = @ + 1,
                            !.event = "raid"]
          ELSE [conn EXCEPT !.at = "done", !.reads = @ + 1,
                            !.event = "raid",
                            !.error = [kind |-> "StreamClosed", status |-> 0]]
    /\ UNCHANGED <<handlerVars, hashVars, queryVars, tweet, made, race>>

\* stream.next() returned Some(Err(e)): logged, the loop goes on
ReadError ==
    /\ conn.at = "stream"
    /\ conn.reads < MaxReads
    /\ conn' = [conn EXCEPT !.reads = @ + 1, !.event = "read_error"]
    /\ UNCHANGED <<handlerVars, hashVars, queryVars, tweet, made, race>>

\* stream.next() returned None
ReadEnd ==
    /\ conn.at = "stream"
    /\ conn.reads < MaxReads
    /\ conn' = [conn EXCEPT !.at = "delay", !.reads = @ + 1,
                            !.event = "end"]
    /\ UNCHANGED <<handlerVars, hashVars, queryVars, tweet, made, race>>

\* delay_for(retry_delay) elapsed
DelayElapsed ==
    /\ conn.at = "delay"
    /\ conn.retry_count < MaxRetries
    /\ conn' = [conn EXCEPT !.at = "connect", !.retry_count = @ + 1]
    /\ UNCHANGED <<handlerVars, hashVars, queryVars, tweet, made, race>>

\* the consumer drops the raid stream
DropStream ==
    /\ conn.at \in {"connect", "stream", "delay"}
    /\ conn.rx_open
    /\ conn' = [conn EXCEPT !.rx_open = FALSE]
    /\ UNCHANGED <<handlerVars, hashVars, queryVars, tweet, made, race>>

NextConnect ==
    \/ ConnectOk
    \/ \E status \in Statuses : ConnectHttp(status)
    \/ ConnectError
    \/ ReadTimeout
    \/ ReadRaid
    \/ ReadError
    \/ ReadEnd
    \/ DelayElapsed
    \/ DropStream

SpecConnect == InitConnect /\ [][NextConnect]_vars

\* the timer of delay_for fires
SpecConnectLive == SpecConnect /\ WF_vars(DelayElapsed)

\* -------------------------------------------------------------- properties
Count(q, x) == Cardinality({i \in 1..Len(q) : q[i] = x})

\* poll_next on Subscription s would return Pending and change nothing: it
\* has received every value its receiver will get unless more are sent
Quiescent(s) ==
    /\ subs[s].pending = <<>>
    /\ ~subs[s].missed
    /\ ~Closed(Handler, subs[s].rx)

\* C1: every raid pushed to a merged (Japanese and English named) entry is
\* delivered exactly once to every live Subscription for either name, once
\* the Subscription has polled up to Pending; a Subscription that was told
\* it lagged is left aside.
C1_MergedDeliveredOnce ==
    \A s \in DOMAIN subs :
        (Quiescent(s) /\ ~subs[s].lagged) =>
            \A i \in 1..Len(subs[s].owed) :
                subs[s].owed[i].merged =>
                    Count(subs[s].delivered, subs[s].owed[i].raid) = 1

\* C3: in every state, poll_next of every Subscription returns an item or
\* Pending, never end-of-stream; when it returns Pending the receiver it
\* holds is open and drained, having re-subscribed if the old one was
\* closed; a Lagged is swallowed.
C3_NeverEnds ==
    \A s \in DOMAIN subs :
        LET r == poll_next(Handler, s)
            orphaned == /\ subs[s].pending = <<>>
                        /\ ~subs[s].missed
                        /\ Closed(Handler, subs[s].rx)
        IN /\ r.outcome \in {"item", "pending"}
           /\ ~r.h.subs[s].missed
           /\ subs[s].missed => r.lagged
           /\ r.outcome = "pending" =>
                 /\ ~Closed(r.h, r.h.subs[s].rx)
                 /\ r.h.subs[s].pending = <<>>
           /\ orphaned =>
                 /\ r.resubscribed
                 /\ r.outcome = "pending"
                 /\ r.h.subs[s].rx = subscribe_channel(r.h, subs[s].boss_name)

\* a poll has re-subscribed a Subscription whose channel was closed
C3_Resubscribed ==
    /\ lastOp.op = "poll"
    /\ lastOp.note = <<"pending", TRUE, FALSE>>

\* C6: a Subscription created while its name had no entry, with no retain
\* before the first raid of that name, has received every raid pushed under
\* the name once it has polled up to Pending, as long as no more raids were
\* pushed than a channel of broadcast_capacity holds.
C6_EarlySubscriberGetsAll ==
    \A s \in DOMAIN subs :
        (subs[s].early /\ Quiescent(s) /\ Len(subs[s].owed) <= BroadcastCapacity) =>
            \A i \in 1..Len(subs[s].owed) :
                subs[s].owed[i].raid.boss_name = subs[s].boss_name =>
                    Count(subs[s].delivered, subs[s].owed[i].raid) >= 1

\* the registry as its readers see it: what each name resolves to, and
\* which names resolve to one and the same entry
Registry(h) ==
    [view |-> [k \in DOMAIN h.map |->
                 [boss |-> h.entries[h.map[k]].boss,
                  history |-> h.entries[h.map[k]].history]],
     same |-> {p \in (DOMAIN h.map) \X (DOMAIN h.map) : h.map[p[1]] = h.map[p[2]]}]

\* boss(ja) and boss(en) are one entry, named ja and en, with a hash
Aliased(m, e, ja, en) ==
    /\ ja \in DOMAIN m
    /\ en \in DOMAIN m
    /\ m[ja] = m[en]
    /\ e[m[ja]].boss.name = [en |-> en, ja |-> ja]
    /\ e[m[ja]].boss.image_hash # NoHash

\* C2: a step of update_image_hash that merges an entry named only ja with
\* an entry named only en leaves boss(ja) and boss(en) the same entry, named
\* both ja and en, with the hash of the call; and a push under ja or en keeps
\* such a pair the same entry with the same names and hash.
C2_MergeAliases ==
    [][ /\ (/\ vars' # vars
            /\ lastOp'.op = "update_image_hash"
            /\ lastOp'.keep # 0
            /\ entries[lastOp'.keep].boss.name.en = None
            /\ entries[lastOp'.discard].boss.name.ja = None)
           => LET ja == entries[lastOp'.keep].boss.name.ja
                  en == entries[lastOp'.discard].boss.name.en
              IN /\ Aliased(map', entries', ja, en)
                 /\ entries'[map'[ja]].boss.image_hash = lastOp'.arg
        /\ \A ja \in Names, en \in Names :
              (/\ vars' # vars
               /\ Aliased(map, entries, ja, en)
               /\ lastOp'.op = "push"
               /\ lastOp'.name \in {ja, en})
              => /\ Aliased(map', entries', ja, en)
                 /\ entries'[map'[ja]].boss.image_hash = entries[map[ja]].boss.image_hash
      ]_vars

\* a raid was pushed under a name of a merged pair
C2_PushedAfterMerge ==
    /\ lastOp.op = "push"
    /\ \E ja \in Names, en \in Names : Aliased(map, entries, ja, en) /\ lastOp.name = en

\* C4: no entry the handler can reach (through the map or the bosses
\* snapshot) holds more than history_size raids.
C4_HistoryBound ==
    \A id \in DOMAIN entries : Len(entries[id].history) <= HistorySize

\* a merge of histories with more raids than history_size
C4_FullAfterMerge ==
    /\ lastOp.op = "update_image_hash"
    /\ lastOp.keep # 0
    /\ pushed > HistorySize
    /\ Len(entries[map[lastOp.name]].history) = HistorySize
    /\ \A n \in DOMAIN map : map[n] = map[lastOp.name]

\* C5: a merging step of update_image_hash leaves as the merged history the
\* history_size most recent raids of the union of the two histories, oldest
\* first in the ring (newest first when iterated), each raid once.
C5_MergedHistory ==
    [][ (vars' # vars /\ lastOp'.op = "update_image_hash" /\ lastOp'.keep # 0)
        => LET A == entries[lastOp'.keep]
               B == entries[lastOp'.discard]
               union == Range(A.history) \cup Range(B.history)
               merged == entries'[map'[Canonical(A.boss.name)]].history
           IN /\ Range(merged) \subseteq union
              /\ Cardinality(Range(merged)) = Len(merged)
              /\ Len(merged) = IF Cardinality(union) < HistorySize
                               THEN Cardinality(union) ELSE HistorySize
              /\ \A x \in union \ Range(merged) : \A y \in Range(merged) :
                    x.created_at <= y.created_at
              /\ \A i \in 1..Len(merged) : \A j \in i..Len(merged) :
                    merged[i].created_at <= merged[j].created_at
      ]_vars

\* C8: in the state a call update_image_hash(name, hash) has produced, the
\* same call again, whatever its search returns, leaves the registry as it
\* is.
C8_Idempotent ==
    lastOp.op = "update_image_hash" =>
        \A other \in find(Handler, lastOp.name, lastOp.arg), ord \in IterOrders :
            Registry(update_image_hash(Handler, lastOp.name, lastOp.arg, other, ord))
                = Registry(Handler)

\* C9: every entry in the map is the value of every name it carries.
C9_IndexedUnderEveryName ==
    \A k \in DOMAIN map :
        \A n \in EntryKeys(entries[map[k]]) : n \in DOMAIN map /\ map[n] = map[k]

\* C10: a step of retain with cutoff t leaves in the map only entries seen
\* after t, leaves every name whose entry was seen after t resolving to that
\* entry, and leaves in bosses() exactly the entries of the map, each once.
C10_Retain ==
    [][ (vars' # vars /\ lastOp'.op = "retain")
        => /\ \A k \in DOMAIN map' :
                 entries'[map'[k]].boss.last_seen_at > lastOp'.arg
           /\ \A k \in DOMAIN map :
                 entries[map[k]].boss.last_seen_at > lastOp'.arg
                 => /\ k \in DOMAIN map'
                    /\ map'[k] = map[k]
                    /\ entries'[map'[k]] = entries[map[k]]
           /\ Range(vec') = Range(map')
           /\ Cardinality(Range(vec')) = Len(vec')
      ]_vars

\* a retain has evicted some entries and kept others
C10_Evicted ==
    /\ lastOp.op = "retain"
    /\ map # EmptyMap

\* C11: after every push, update_image_hash and retain, bosses() holds
\* each entry of the map exactly once (also an entry indexed under two
\* names), in strictly ascending order of (level, canonical name).
C11_BossesSnapshot ==
    LET b == bosses(Handler)
    IN /\ Range(b) = Range(map)
       /\ Cardinality(Range(b)) = Len(b)
       /\ \A i \in 1..Len(b) : \A j \in (i + 1)..Len(b) :
             \/ entries[b[i]].boss.level < entries[b[j]].boss.level
             \/ /\ entries[b[i]].boss.level = entries[b[j]].boss.level
                /\ NameRank(Canonical(entries[b[i]].boss.name))
                     < NameRank(Canonical(entries[b[j]].boss.name))

\* bosses() lists a merged entry, indexed under two names, before a level
\* 100 boss whose name is ordered before the names of the merged entry
C11_MergedAmongOthers ==
    /\ Len(bosses(Handler)) = 2
    /\ Cardinality(DOMAIN map) = 3
    /\ entries[bosses(Handler)[2]].boss.level = 100
    /\ NameRank(Canonical(entries[bosses(Handler)[2]].boss.name))
         < NameRank(Canonical(entries[bosses(Handler)[1]].boss.name))

\* C12: a Subscription whose boss was evicted by retain while it was alive
\* has, once it has polled up to Pending and unless it was told it lagged,
\* received every raid pushed under its name since the eviction, the
\* re-creating raid included.
C12_RecreatedDelivered ==
    \A s \in DOMAIN subs :
        (Quiescent(s) /\ ~subs[s].lagged) =>
            \A i \in 1..Len(subs[s].owed) :
                (/\ subs[s].owed[i].recreated
                 /\ subs[s].owed[i].raid.boss_name = subs[s].boss_name)
                => Count(subs[s].delivered, subs[s].owed[i].raid) = 1

\* boss-updates stream b has polled up to Pending and was never behind
Drained(b) ==
    /\ bsubs[b].pending = <<>>
    /\ ~bsubs[b].missed
    /\ ~bsubs[b].lagged

\* C13 as stated: a boss-updates stream that has not lagged and has polled
\* up to Pending has yielded one item for every creation, image fill-in and
\* merge since it subscribed.
C13_OneItemPerChange ==
    \A b \in DOMAIN bsubs : Drained(b) => bsubs[b].yielded = bsubs[b].changes

\* C13 amended: every creation, image fill-in and merge sends one item to
\* every boss-updates stream subscribed beforehand, and a stream that has
\* not lagged has, of the items it took, yielded those whose entry was still
\* alive at the poll and skipped those whose entry had been dropped.
C13_OneItemUnlessDropped ==
    \A b \in DOMAIN bsubs :
        /\ bsubs[b].received = bsubs[b].changes
        /\ (~bsubs[b].missed /\ ~bsubs[b].lagged) =>
              bsubs[b].yielded + bsubs[b].skipped + Len(bsubs[b].pending)
                = bsubs[b].changes
        /\ \A i \in 1..Len(bsubs[b].pending) :
              bsubs[b].pending[i] # Dangling => bsubs[b].pending[i] \in Range(map)

\* a stream has yielded an item and skipped another whose entry was replaced
C13_YieldedAndSkipped ==
    \E b \in DOMAIN bsubs :
        Drained(b) /\ bsubs[b].yielded >= 1 /\ bsubs[b].skipped >= 1

\* C14: a step of update_image_hash(name, h) on an entry without image_hash
\* for which no other entry matches leaves name resolving to an entry that
\* differs from the old one in image_hash = h only, and sends one item to
\* every boss-updates stream.
C14_UnmatchedPublished ==
    [][ (/\ vars' # vars
         /\ lastOp'.op = "update_image_hash"
         /\ lastOp'.keep = 0)
        => /\ entries'[map'[lastOp'.name]].boss
                = [entries[map[lastOp'.name]].boss EXCEPT !.image_hash = lastOp'.arg]
           /\ \A b \in DOMAIN bsubs : bsubs'[b].received = bsubs[b].received + 1
      ]_vars

\* the raids pushed so far under name n, in push order
PushedFor(n) == SelectSeq(log, LAMBDA r : r.boss_name = n)

\* C15: the history of a boss for which raids of pairwise different
\* created_at were pushed holds min(history_size, k) of the k raids pushed so
\* far, and none of the raids it does not hold is more recent by created_at
\* than one it holds.
C15_MostRecentByCreatedAt ==
    \A n \in DOMAIN map :
        LET P == PushedFor(n)
            hist == entries[map[n]].history
        IN (\A i \in 1..Len(P) : \A j \in 1..Len(P) :
               i # j => P[i].created_at # P[j].created_at)
           => /\ Len(hist) = IF Len(P) < HistorySize THEN Len(P) ELSE HistorySize
              /\ Range(hist) \subseteq Range(P)
              /\ \A x \in Range(P) \ Range(hist) : \A y \in Range(hist) :
                    x.created_at < y.created_at

\* C16: what a Subscription that never lagged has yielded is made of raids
\* pushed for its boss since it subscribed, in push order (tweet ids are
\* given in push order), no raid twice.
C16_PushOrder ==
    \A s \in DOMAIN subs :
        ~subs[s].lagged =>
            LET del == subs[s].delivered
            IN /\ \A i \in 1..Len(del) :
                     \E k \in 1..Len(subs[s].owed) : subs[s].owed[k].raid = del[i]
               /\ \A i \in 1..Len(del) : \A j \in (i + 1)..Len(del) :
                     del[i].tweet_id < del[j].tweet_id

\* a Subscription for the English name has yielded a raid pushed before the
\* merge, from the channel of the English entry, and after re-subscribing a
\* raid pushed to the merged entry
C16_AcrossResubscription ==
    \E s \in DOMAIN subs :
        /\ subs[s].boss_name = "en1"
        /\ ~subs[s].lagged
        /\ Len(subs[s].delivered) = 2
        /\ \E k \in 1..Len(subs[s].owed) :
              /\ subs[s].owed[k].raid = subs[s].delivered[1]
              /\ ~subs[s].owed[k].merged
        /\ \E k \in 1..Len(subs[s].owed) :
              /\ subs[s].owed[k].raid = subs[s].delivered[2]
              /\ subs[s].owed[k].merged

\* C17: in every state, for every call update_image_hash(n, hash) whose
\* search returns a match, when one of the two entries (the targeted one or
\* the match) has a Japanese name and the other has none, the merged entry
\* has the names and images of the Japanese-named entry, completed by those
\* of the other where it has none, the later of the two last_seen_at, and
\* the broadcast channel of the Japanese-named entry.
C17_JapaneseKept ==
    \A n \in DOMAIN map : \A hash \in Hashes : \A ord \in IterOrders :
        \A other \in find(Handler, n, hash) \ {0} :
            LET this == entries[map[n]]
                that == entries[other]
                J == IF this.boss.name.ja # None THEN this ELSE that
                E == IF this.boss.name.ja # None THEN that ELSE this
                h2 == update_image_hash(Handler, n, hash, other, ord)
                merged == h2.entries[h2.map[J.boss.name.ja]]
            IN (J.boss.name.ja # None /\ E.boss.name.ja = None) =>
                 /\ merged.boss.name.ja = J.boss.name.ja
                 /\ merged.boss.name.en =
                      IF J.boss.name.en # None THEN J.boss.name.en ELSE E.boss.name.en
                 /\ merged.boss.image.ja =
                      IF J.boss.image.ja # None THEN J.boss.image.ja ELSE E.boss.image.ja
                 /\ merged.boss.image.en =
                      IF J.boss.image.en # None THEN J.boss.image.en ELSE E.boss.image.en
                 /\ merged.boss.last_seen_at =
                      MaxInt(J.boss.last_seen_at, E.boss.last_seen_at)
                 /\ merged.boss.image_hash = hash
                 /\ merged.broadcast = J.broadcast

\* a call that targeted the English-named entry has merged it into the
\* Japanese-named one
C17_TargetedEnglish ==
    /\ lastOp.op = "update_image_hash"
    /\ lastOp.keep # 0
    /\ lastOp.name = "en1"
    /\ Aliased(map, entries, "ja1", "en1")

\* C18: the broadcast channel of every entry has room for
\* broadcast_capacity raids, and a Subscription whose next receive is a lag
\* signal holds at least broadcast_capacity unread raids.
C18_ChannelCapacity ==
    /\ \A id \in DOMAIN entries :
          chans[entries[id].broadcast].cap >= BroadcastCapacity
    /\ \A s \in DOMAIN subs :
          subs[s].missed => Len(subs[s].pending) >= BroadcastCapacity

\* the number of fetch futures, queued or running, for boss_name n
Fetches(queue, running, n) ==
    Cardinality({i \in 1..Len(queue) :
                    queue[i].kind = "fetch" /\ queue[i].boss_name = n})
    + Cardinality({i \in 1..Len(running) :
                    running[i].kind = "fetch" /\ running[i].boss_name = n})

\* a hash of boss_name n has been yielded
Succeeded(n) == \E i \in 1..Len(output) : output[i].boss_name = n /\ output[i].ok

\* C7: after every step of the worker at most one fetch, queued or running,
\* exists for each boss_name, and a step taken once a hash of a boss_name has
\* been yielded does not invoke the hasher for it.
C7_SingleFetch ==
    [][ \A n \in Names :
          /\ Fetches(out_queue', in_flight', n) <= 1
          /\ Succeeded(n) => calls'[n] = calls[n]
      ]_vars

\* a boss was hashed once and its hash was yielded again from the cache
C7_Reused ==
    \E n \in Names :
        /\ calls[n] = 1
        /\ Cardinality({i \in 1..Len(output) : output[i].boss_name = n /\ output[i].ok}) >= 2

\* the state of boss_name n in requested ("Absent" without an entry)
StateOf(r, n) == IF n \in DOMAIN r THEN r[n].state ELSE "Absent"

\* the step is an iteration of the worker loop
WorkerStep == inbox # <<>> /\ inbox' = Tail(inbox)

\* C19: an iteration of the worker on a request for a boss_name in state
\* Success(h) queues one ready future carrying h and nothing else, with the
\* state and the hasher's call counts as they were, whatever the request's
\* uri; taking a ready future into the buffer calls no hasher; and its
\* completion yields the one output Ok(h), h being the stored hash, and
\* leaves the state as it was.
C19_StoredHashReused ==
    [][ /\ (/\ WorkerStep
            /\ StateOf(requested, Head(inbox).boss_name) = "Success")
           => LET n == Head(inbox).boss_name
              IN /\ Len(out_queue') = Len(out_queue) + 1
                 /\ SubSeq(out_queue', 1, Len(out_queue)) = out_queue
                 /\ out_queue'[Len(out_queue')].kind = "ready"
                 /\ out_queue'[Len(out_queue')].boss_name = n
                 /\ out_queue'[Len(out_queue')].image_hash = requested[n].image_hash
                 /\ requested' = requested
                 /\ calls' = calls
                 /\ output' = output
        /\ (/\ out_queue # <<>>
            /\ out_queue' = Tail(out_queue)
            /\ Head(out_queue).kind = "ready")
           => calls' = calls /\ requested' = requested /\ output' = output
        /\ \A i \in 1..Len(in_flight) :
              (in_flight' = RemoveAt(in_flight, i) /\ in_flight[i].kind = "ready")
              => /\ output' = Append(output,
                       [boss_name |-> in_flight[i].boss_name, ok |-> TRUE,
                        image_hash |-> requested[in_flight[i].boss_name].image_hash])
                 /\ requested' = requested
                 /\ calls' = calls
      ]_vars

\* two requests with different uris for a boss in state Success are being
\* answered with the stored hash
C19_TwoUris ==
    \E n \in Names :
        LET futures == out_queue \o in_flight
        IN /\ StateOf(requested, n) = "Success"
           /\ calls[n] = 1
           /\ \E i \in 1..Len(futures) : \E j \in 1..Len(futures) :
                 /\ futures[i].kind = "ready" /\ futures[j].kind = "ready"
                 /\ futures[i].boss_name = n /\ futures[j].boss_name = n
                 /\ futures[i].uri # futures[j].uri
                 /\ futures[i].image_hash = requested[n].image_hash
                 /\ futures[j].image_hash = requested[n].image_hash

\* C20: the completion of a fetch yields one output for its boss_name and
\* stores Failure when it failed (Success with the hash when it succeeded);
\* an iteration of the worker on a request for a boss_name in state Failure
\* stores Pending and queues exactly one fetch of the request's uri; and a
\* state that is Success is never changed.
C20_RetryAfterFailure ==
    [][ /\ \A i \in 1..Len(in_flight) :
              (in_flight' = RemoveAt(in_flight, i) /\ in_flight[i].kind = "fetch")
              => LET n == in_flight[i].boss_name
                 IN /\ Len(output') = Len(output) + 1
                    /\ SubSeq(output', 1, Len(output)) = output
                    /\ output'[Len(output')].boss_name = n
                    /\ StateOf(requested, n) = "Pending"
                    /\ IF output'[Len(output')].ok
                       THEN requested'[n] =
                              [state |-> "Success",
                               image_hash |-> output'[Len(output')].image_hash]
                       ELSE requested'[n].state = "Failure"
        /\ (/\ WorkerStep
            /\ StateOf(requested, Head(inbox).boss_name) = "Failure")
           => /\ requested'[Head(inbox).boss_name].state = "Pending"
              /\ out_queue' = Append(out_queue,
                    [kind |-> "fetch", boss_name |-> Head(inbox).boss_name,
                     uri |-> Head(inbox).uri, image_hash |-> NoHash])
              /\ Fetches(out_queue', in_flight', Head(inbox).boss_name) = 1
        /\ \A n \in DOMAIN requested :
              requested[n].state = "Success" => requested'[n] = requested[n]
      ]_vars

\* a boss was fetched, failed, was fetched again and succeeded
C20_SucceededOnRetry ==
    \E n \in Names :
        /\ calls[n] = 2
        /\ StateOf(requested, n) = "Success"
        /\ \E i \in 1..Len(output) : output[i].boss_name = n /\ ~output[i].ok

\* C21: the output stream has ended only if every Inbox handle is dropped,
\* and then no request is left unreceived, no fetch is left Pending and
\* every boss_name requested has had an output; and once every Inbox handle
\* is dropped the stream does end, provided the consumer keeps polling and
\* the hasher answers.
C21_EndsAfterDrop ==
    /\ [](OutputEnded =>
            /\ ~inbox_open
            /\ inbox = <<>>
            /\ \A n \in DOMAIN requested :
                  /\ requested[n].state # "Pending"
                  /\ \E i \in 1..Len(output) : output[i].boss_name = n)
    /\ (~inbox_open ~> OutputEnded)

\* the stream has ended after yielding the outputs of requests for both
\* boss names
C21_EndedWithOutputs ==
    /\ OutputEnded
    /\ requests >= 3
    /\ \A n \in PairNames : \E i \in 1..Len(output) : output[i].boss_name = n

\* C27: a cursor or a node id that was encoded and then decoded is decoded
\* to the value that was encoded.
C27_RoundTrip ==
    codec.at = "decoded" => codec.decoded = <<codec.value>>

\* a node id whose boss name contains ':' twice has been encoded and decoded
C27_NameWithColons ==
    /\ codec.at = "decoded"
    /\ codec.kind = "node"
    /\ Cardinality({i \in 1..Len(codec.value.boss) : codec.value.boss[i] = Colon}) = 2

\* paginate has returned
Returned == page.at = "returned"
\* no two edges of the sequence have the same cursor
Distinct(edges) == \A i \in 1..Len(edges) : \A j \in 1..Len(edges) :
                      edges[i] = edges[j] => i = j
\* the position in edges of the edge the cursor matches, 0 without one (or
\* without a cursor)
PositionOf(arg, edges) ==
    IF arg = <<>> THEN 0
    ELSE LET m == {i \in 1..Len(edges) : edges[i] = arg[1].tweet_id}
         IN IF m = {} THEN 0 ELSE MinOf(m)

\* C22: paginate returns an error and no page when neither first nor last
\* is given, when both are given, or when the one given is negative, and a
\* page otherwise.
C22_ArgumentErrors ==
    Returned =>
        LET bad == \/ page.first = <<>> /\ page.last = <<>>
                   \/ page.first # <<>> /\ page.last # <<>>
                   \/ page.first # <<>> /\ page.first[1] < 0
                   \/ page.last # <<>> /\ page.last[1] < 0
        IN /\ page.result.ok = ~bad
           /\ bad => DOMAIN page.result = {"ok", "err"} /\ page.result.err # ""
           /\ ~bad => DOMAIN page.result = {"ok", "edges", "page_info"}

\* paginate has refused a call that gave a negative last only
C22_NegativeLast ==
    /\ Returned
    /\ page.first = <<>>
    /\ page.last = <<0 - 1>>
    /\ ~page.result.ok

\* the argument is absent or is the cursor of an edge
AbsentOrFound(arg, edges) == arg = <<>> \/ PositionOf(arg, edges) > 0

\* C23: for first = N over edges with distinct cursors and an after that is
\* absent or matches the edge at position i (0 when absent), the output is
\* the run of consecutive edges that starts right after position i, has at
\* most N edges and none that before matches, and is the longest such run:
\* it has N edges, or ends with the last edge, or the edge after it
\* matches before.
C23_FirstRun ==
    (/\ Returned
     /\ page.result.ok
     /\ page.first # <<>>
     /\ Distinct(page.edges)
     /\ AbsentOrFound(page.after, page.edges))
    => LET out == page.result.edges
           i == PositionOf(page.after, page.edges)
           L == Len(page.edges)
       IN /\ Len(out) <= page.first[1]
          /\ i + Len(out) <= L
          /\ out = SubSeq(page.edges, i + 1, i + Len(out))
          /\ page.before # <<>> =>
                \A k \in 1..Len(out) : out[k] # page.before[1].tweet_id
          /\ \/ Len(out) = page.first[1]
             \/ i + Len(out) = L
             \/ /\ page.before # <<>>
                /\ page.edges[i + Len(out) + 1] = page.before[1].tweet_id

\* a page of one edge, between the edge of after and the edge of before,
\* was cut short by before and not by first
C23_CutByBefore ==
    /\ Returned
    /\ page.edges = <<1, 2, 3>>
    /\ page.first = <<2>>
    /\ page.after = <<[tweet_id |-> 1]>>
    /\ page.before = <<[tweet_id |-> 3]>>
    /\ page.result.edges = <<2>>

\* the last min(n, Len(cand)) elements of cand
LastOf(cand, n) ==
    IF Len(cand) <= n THEN cand ELSE SubSeq(cand, Len(cand) - n + 1, Len(cand))

\* C24: for last = N the candidates are the edges after the position i of
\* after (0 when after is absent, the end of the sequence when it matches
\* nothing) and before the first of them that before matches (all of them
\* when before is absent or matches none of them); the output is the last
\* min(N, number of candidates) candidates in their order.
C24_LastWindow ==
    (Returned /\ page.result.ok /\ page.last # <<>>)
    => LET L == Len(page.edges)
           i == IF page.after = <<>> THEN 0
                ELSE IF PositionOf(page.after, page.edges) = 0 THEN L
                ELSE PositionOf(page.after, page.edges)
           later == IF page.before = <<>> THEN {}
                    ELSE {k \in (i + 1)..L : page.edges[k] = page.before[1].tweet_id}
           upto == IF later = {} THEN L ELSE MinOf(later) - 1
       IN page.result.edges = LastOf(SubSeq(page.edges, i + 1, upto), page.last[1])

\* the last edge of two candidates between after and before was returned
C24_LastOfTwo ==
    /\ Returned
    /\ page.edges = <<1, 2, 3>>
    /\ page.last = <<1>>
    /\ page.after = <<>>
    /\ page.before = <<[tweet_id |-> 3]>>
    /\ page.result.edges = <<2>>

\* C25: a call with first = N and an after that matches no edge of a
\* non-empty sequence returns no edge, has_previous_page = true,
\* has_next_page = false, and no start and end cursor.
C25_AfterNotFound ==
    (/\ Returned
     /\ page.result.ok
     /\ page.first # <<>>
     /\ page.edges # <<>>
     /\ page.after # <<>>
     /\ PositionOf(page.after, page.edges) = 0)
    => /\ page.result.edges = <<>>
       /\ page.result.page_info.has_previous_page
       /\ ~page.result.page_info.has_next_page
       /\ page.result.page_info.start_cursor = <<>>
       /\ page.result.page_info.end_cursor = <<>>

\* first = 2 was asked after a cursor that three edges do not match
C25_UnknownCursor ==
    /\ Returned
    /\ page.edges = <<1, 2, 3>>
    /\ page.first = <<2>>
    /\ page.after = <<[tweet_id |-> MaxEdges + 1]>>
    /\ page.before = <<>>
    /\ page.result.ok

\* C26: for every call that returns a non-empty page over edges with
\* distinct cursors, has_previous_page tells that the first output edge is
\* not the first edge, has_next_page that the last output edge is not the
\* last edge, and start_cursor and end_cursor decode to the cursors of the
\* first and the last output edge.
C26_PageInfo ==
    (/\ Returned
     /\ page.result.ok
     /\ Distinct(page.edges)
     /\ page.result.edges # <<>>)
    => LET out == page.result.edges
           info == page.result.page_info
       IN /\ info.has_previous_page = (out[1] # page.edges[1])
          /\ info.has_next_page = (out[Len(out)] # page.edges[Len(page.edges)])
          /\ Len(info.start_cursor) = 1
          /\ Len(info.end_cursor) = 1
          /\ from_scalar_string(info.start_cursor[1]) = <<from_edge(out[1])>>
          /\ from_scalar_string(info.end_cursor[1]) = <<from_edge(out[Len(out)])>>

\* a page in the middle of the sequence: pages before it and after it
C26_MiddlePage ==
    /\ Returned
    /\ page.edges = <<3, 1, 2>>
    /\ page.result.ok
    /\ page.result.edges = <<1>>
    /\ page.last # <<>>
    /\ page.result.page_info.has_previous_page
    /\ page.result.page_info.has_next_page

Converted == tweet.at = "converted"

\* the groups the parser goes on with: those of the Japanese regex when it
\* matches, else those of the English regex; <<>> when neither matches
Captured ==
    IF REGEX_JAPANESE(tweet.text) # <<>> THEN REGEX_JAPANESE(tweet.text)
    ELSE REGEX_ENGLISH(tweet.text)

\* C28: a converted tweet has no Raid when its source is not the game-app
\* signature, when its captured boss line holds "http", or when its captured
\* url line is non-empty and is not one http(s) address without a space.
C28_GatesReject ==
    Converted =>
        /\ tweet.source # GRANBLUE_APP_SOURCE => tweet.result = <<>>
        /\ Captured # <<>> =>
              LET boss == Captured[1].boss
                  url == Captured[1].url
              IN /\ (\E i \in 1..Len(boss) : boss[i] = "url")
                        => tweet.result = <<>>
                 /\ (/\ url # <<>>
                     /\ \/ url[1] # "url"
                        \/ \E i \in 1..Len(url) :
                              url[i] \in {"sp", "jaKey", "enKey", "enCall"})
                        => tweet.result = <<>>

\* a tweet of the game app with a Japanese raid text and a boss line without
\* "http" was refused for the space after the address on its last line
C28_SpaceInUrl ==
    /\ Converted
    /\ tweet.source = GRANBLUE_APP_SOURCE
    /\ tweet.text = <<"id", "ja", "w", "nl", "url", "sp">>
    /\ tweet.result = <<>>

\* C29: a converted tweet has a Raid only if its text matches exactly one of
\* the Japanese and the English regex; a text that matches both has none.
C29_ExactlyOneForm ==
    (Converted /\ tweet.result # <<>>)
    => (REGEX_JAPANESE(tweet.text) # <<>>) # (REGEX_ENGLISH(tweet.text) # <<>>)

\* the worker matched a result of connect or of stream.next in this step
WorkerMatched ==
    /\ conn.at # "idle"
    /\ conn'.attempts # conn.attempts \/ conn'.reads # conn.reads

\* C30: the worker is done only with StreamClosed after the consumer
\* dropped the raid stream, or with the status of its very first call of
\* connect when that is a 4xx other than 420 and 429; a timeout, a stream
\* end, a transport error and a status 420, 429 or 5xx lead to the delay,
\* and an elapsed delay to the next call of connect; a read error leaves
\* the worker reading the same stream.
C30_Reconnects ==
    /\ [](conn.at = "done" =>
            \/ conn.error.kind = "StreamClosed" /\ ~conn.rx_open
            \/ /\ conn.error.kind = "Http"
               /\ conn.error.status \in 400..499
               /\ conn.error.status \notin {420, 429}
               /\ conn.attempts = 1)
    /\ [][(/\ WorkerMatched
           /\ \/ conn'.event \in {"timeout", "end", "transport"}
              \/ /\ conn'.event = "http"
                 /\ conn'.status \in {420, 429} \cup (500..599))
          => conn'.at = "delay" /\ conn'.retry_count = conn.retry_count]_vars
    /\ [][(WorkerMatched /\ conn'.event = "read_error")
          => /\ conn'.at = "stream"
             /\ conn'.attempts = conn.attempts
             /\ conn'.retry_count = conn.retry_count]_vars
    /\ \A k \in 0..(MaxRetries - 1) :
          (conn.at = "delay" /\ conn.retry_count = k)
              ~> (conn.at = "connect" /\ conn.retry_count = k + 1)

\* the worker waited and reconnected once, sent one raid, and ended with
\* StreamClosed at a later raid, read after the consumer dropped the stream
C30_ClosedAfterReconnect ==
    /\ conn.at = "done"
    /\ conn.error.kind = "StreamClosed"
    /\ conn.retry_count = 1
    /\ conn.sent = 1
    /\ conn.reads = 3

\* C40: a call of connect that returns a 4xx status other than 420 and 429
\* leads to the delay only if an earlier call returned a stream; when no
\* call ever did, the worker is done with that status.
C40_RetriedOnlyAfterConnected ==
    [][(/\ WorkerMatched
        /\ conn'.event = "http"
        /\ conn'.status \in 400..499
        /\ conn'.status \notin {420, 429})
       => IF conn.connected = 0
          THEN /\ conn'.at = "done"
               /\ conn'.error = [kind |-> "Http", status |-> conn'.status]
          ELSE conn'.at \in {"delay", "done"}]_vars

\* the fetch of boss n has been submitted and has not stored its outcome
PendingFetch(n) == n \in DOMAIN requested /\ requested[n].state = "Pending"

\* the number of BossImageHash items yielded for boss n
Outputs(n) == Cardinality({i \in 1..Len(output) : output[i].boss_name = n})

\* C39: while the outputs are polled and the hasher answers, a boss that is
\* Pending with k items yielded is later out of Pending with k + 1 items;
\* the step that takes it out of Pending yields one item for it, which
\* tells the state stored, and no other step yields an item for it while it
\* is Pending; a request received for a Pending boss changes neither the
\* states, nor the futures queued or in progress, nor the output.
C39_FetchYieldsOnce ==
    /\ \A n \in PairNames : \A k \in 0..(MaxRequests - 1) :
          (PendingFetch(n) /\ Outputs(n) = k)
              ~> (~PendingFetch(n) /\ Outputs(n) = k + 1)
    /\ [][\A n \in PairNames :
            PendingFetch(n) =>
               IF PendingFetch(n)'
               THEN Outputs(n)' = Outputs(n)
               ELSE /\ requested'[n].state \in {"Success", "Failure"}
                    /\ \E item \in {[boss_name |-> n,
                                     ok |-> requested'[n].state = "Success",
                                     image_hash |-> requested'[n].image_hash]} :
                          output' = Append(output, item)]_vars
    /\ [][(WorkerStep /\ PendingFetch(Head(inbox).boss_name))
          => UNCHANGED <<requested, out_queue, in_flight, output, calls>>]_vars

\* two requests were received and everything they caused is over: one call
\* of the hasher, which failed, and one item; the second request, for the
\* same boss, was received while the boss was Pending
C39_SkippedWhilePending ==
    /\ requests = 2
    /\ inbox = <<>> /\ out_queue = <<>> /\ in_flight = <<>>
    /\ Len(output) = 1
    /\ \E n \in PairNames :
          /\ calls[n] = 1
          /\ requested[n].state = "Failure"
          /\ DOMAIN requested = {n}

\* a tick of the cleanup task that sent a request or removed a name
TickStep == lastOp'.op = "cleanup" /\ (inbox' # inbox \/ map' # map)

\* C38: a tick with cutoff t removes the names of the entries last seen at
\* t or before and keeps the others, and the entries it sends a request for
\* are the entries last seen after t that have an image and no image hash.
C38_RequestsForSurvivors ==
    [][TickStep =>
        LET t == lastOp'.arg
            Survives(n) == entries[map[n]].boss.last_seen_at > t
            sent == SubSeq(inbox', Len(inbox) + 1, Len(inbox'))
        IN /\ DOMAIN map' = {n \in DOMAIN map : Survives(n)}
           /\ {sent[i].boss_name : i \in 1..Len(sent)}
                 = {n \in DOMAIN map :
                      /\ Survives(n)
                      /\ entries[map[n]].boss.image_hash = NoHash
                      /\ LangGet(entries[map[n]].boss.image, NameLanguage(n)) # None}
      ]_vars

\* C37: in every state and for every cutoff, retain leaves as waiting
\* slots exactly those whose channel has a receiver, each with its channel,
\* and leaves every name whose entry was last seen after the cutoff on the
\* same entry, the entry with the same boss, history and channel; the other
\* names are removed.
C37_RetainFrame ==
    \A t \in {0} \cup Times : \A ord \in IterOrders :
       LET h == retain(Handler, t, ord)
           live == {n \in DOMAIN waiting : ReceiverCount(Handler, waiting[n]) > 0}
           kept == {n \in DOMAIN map : entries[map[n]].boss.last_seen_at > t}
       IN /\ DOMAIN h.waiting = live
          /\ \A n \in live : h.waiting[n] = waiting[n] /\ waiting[n] \in DOMAIN h.chans
          /\ DOMAIN h.map = kept
          /\ \A n \in kept : /\ h.map[n] = map[n]
                             /\ h.entries[map[n]] = entries[map[n]]
                             /\ entries[map[n]].broadcast \in DOMAIN h.chans

\* a retain with cutoff 1 changed the handler and left an entry in the map
\* and a waiting slot, which a Subscription is attached to
C37_KeptSlotAndEntry ==
    /\ lastOp.op = "retain"
    /\ lastOp.arg = 1
    /\ map # EmptyMap
    /\ \E n \in DOMAIN waiting : \E s \in DOMAIN subs : subs[s].rx = waiting[n]

\* the last element of a non-empty sequence
Last(q) == q[Len(q)]

\* C36: in every state, for every raid whose boss_name resolves to an
\* entry, push leaves each receiver of the entry's channel with the raid as
\* its newest value; when the entry has an image for the raid's language or
\* the raid has no image_url, the names resolve as before, the entry has
\* last_seen_at = raid.created_at and the raid as newest of its history, and
\* nothing is published; otherwise every name of the entry resolves to one
\* new entry with that history, last_seen_at, the same channel and the image
\* set, and that entry is published.
C36_PushExisting ==
    \A raid \in Raids(pushed + 1, DOMAIN map, Times) : \A ord \in IterOrders :
       LET h == push(Handler, raid, ord)
           id == map[raid.boss_name]
           e == entries[id]
           fill == LangGet(e.boss.image, raid.language) = None /\ raid.image_url # None
           new == h.map[raid.boss_name]
           hist == h.entries[new].history
           older == SubSeq(hist, 1, Len(hist) - 1)
       IN /\ \A s \in DOMAIN subs :
                subs[s].rx = e.broadcast =>
                   /\ h.subs[s].pending # <<>>
                   /\ Last(h.subs[s].pending) = raid
          /\ hist # <<>> /\ Last(hist) = raid
          /\ Len(hist) <= HistorySize
          /\ Len(older) <= Len(e.history)
          /\ older = SubSeq(e.history, Len(e.history) - Len(older) + 1, Len(e.history))
          /\ Len(older) = Len(e.history) \/ Len(hist) = HistorySize
          /\ h.entries[new].boss.last_seen_at = raid.created_at
          /\ h.entries[new].broadcast = e.broadcast
          /\ h.entries[new].boss.name = e.boss.name
          /\ h.entries[new].boss.image_hash = e.boss.image_hash
          /\ IF fill
             THEN /\ new \notin DOMAIN entries
                  /\ \A k \in EntryKeys(e) : h.map[k] = new
                  /\ \A k \in DOMAIN map \ EntryKeys(e) : h.map[k] = map[k]
                  /\ h.entries[new].boss.image
                        = LangSet(e.boss.image, raid.language, raid.image_url)
                  /\ \A b \in DOMAIN bsubs :
                        /\ h.bsubs[b].received = bsubs[b].received + 1
                        /\ Last(h.bsubs[b].pending) = new
             ELSE /\ h.map = map
                  /\ h.entries[new].boss.image = e.boss.image
                  /\ \A b \in DOMAIN bsubs :
                        h.bsubs[b].received = bsubs[b].received

\* the second push for a merged boss carried the first image of its
\* language: both names resolve to the replacement, which holds both raids
\* pushed since the merge, and the Subscription and the consumer of boss
\* updates have the raid and the replacement as their newest value
C36_ImageFilledIn ==
    /\ lastOp.op = "push"
    /\ \E n \in DOMAIN map :
          LET e == entries[map[n]]
          IN /\ Len(e.history) = 2
             /\ e.history[1].image_url = None
             /\ e.history[2].image_url # None
             /\ e.history[1].boss_name = n /\ e.history[2].boss_name = n
             /\ LangGet(e.boss.image, NameLanguage(n)) = e.history[2].image_url
             /\ \E s \in DOMAIN subs :
                   /\ subs[s].rx = e.broadcast
                   /\ subs[s].pending # <<>>
                   /\ Last(subs[s].pending) = e.history[2]
             /\ \E b \in DOMAIN bsubs :
                   /\ bsubs[b].pending # <<>>
                   /\ Last(bsubs[b].pending) = map[n]

\* ------------------------------------------------- Boss::from(&Raid), level
\* A boss_name is a sequence of characters here, so that REGEX_LEVEL and the
\* integer parse act on what the parser emits.
MaxDigits == 5
\* Level = i16
I16_MAX == 32767
Digits == {"0", "2", "3", "6", "7", "8"}
DigitValue(c) ==
    CASE c = "0" -> 0 [] c = "1" -> 1 [] c = "2" -> 2 [] c = "3" -> 3
      [] c = "4" -> 4 [] c = "5" -> 5 [] c = "6" -> 6 [] c = "7" -> 7
      [] c = "8" -> 8 [] c = "9" -> 9
IsDigit(c) == c \in {"0", "1", "2", "3", "4", "5", "6", "7", "8", "9"}

DigitRuns == UNION {[1..k -> Digits] : k \in 0..MaxDigits}
LevelPrefixes == {<<"L", "v">>, <<"L", "v", "l", " ">>, <<"L", "v", "l">>, <<>>}
LevelTails == {<<" ", "X">>, <<"X">>, <<>>}
\* the non-empty single-line names pushed
LevelNames ==
    {n \in {p \o ds \o t : p \in LevelPrefixes, ds \in DigitRuns, t \in LevelTails} :
        n # <<>>}

\* the end of the longest run of digits of name that starts at position i
RECURSIVE DigitsEnd(_, _)
DigitsEnd(name, i) ==
    IF i <= Len(name) /\ IsDigit(name[i]) THEN DigitsEnd(name, i + 1) ELSE i

\* REGEX_LEVEL = ^Lv(?:l )?(?P<level>[0-9]+) followed by one space: the
\* capture "level" of the leftmost-first match, <<>> when there is no match.
\* The optional group is tried first with "l " and then without it.
level_capture_from(name, start) ==
    LET end == DigitsEnd(name, start)
    IN IF end > start /\ end <= Len(name) /\ name[end] = " "
       THEN <<SubSeq(name, start, end - 1)>>
       ELSE <<>>

REGEX_LEVEL(name) ==
    IF Len(name) >= 2 /\ name[1] = "L" /\ name[2] = "v"
    THEN IF /\ Len(name) >= 4 /\ name[3] = "l" /\ name[4] = " "
            /\ level_capture_from(name, 5) # <<>>
         THEN level_capture_from(name, 5)
         ELSE level_capture_from(name, 3)
    ELSE <<>>

\* str::parse::<i16> of a run of digits: checked multiply and add per digit
RECURSIVE from_str_radix(_, _, _)
from_str_radix(digits, i, acc) ==
    IF i > Len(digits) THEN [ok |-> TRUE, value |-> acc]
    ELSE IF acc * 10 > I16_MAX \/ acc * 10 + DigitValue(digits[i]) > I16_MAX
         THEN [ok |-> FALSE, value |-> 0]
         ELSE from_str_radix(digits, i + 1, acc * 10 + DigitValue(digits[i]))

parse_i16(digits) ==
    IF digits = <<>> THEN [ok |-> FALSE, value |-> 0]
    ELSE from_str_radix(digits, 1, 0)

\* parse_level: None without a match, Some(level) for a parsed capture, and
\* the expect panics when the capture does not parse
parse_level_of(name) ==
    LET c == REGEX_LEVEL(name)
    IN IF c = <<>> THEN [panic |-> FALSE, level |-> <<>>]
       ELSE IF parse_i16(c[1]).ok
            THEN [panic |-> FALSE, level |-> <<parse_i16(c[1]).value>>]
            ELSE [panic |-> TRUE, level |-> <<>>]

InitLevel ==
    /\ InitHandler /\ InitHash
    /\ page = Idle /\ codec = Idle /\ tweet = Idle /\ conn = Idle /\ race = Idle
    /\ made \in {[at |-> "raid", boss_name |-> n, panicked |-> FALSE, level |-> <<>>] :
                   n \in LevelNames}

\* push of a raid with a new boss_name: new_entry_from_raid builds the Boss
BossFrom ==
    /\ made.at = "raid"
    /\ LET r == parse_level_of(made.boss_name)
       IN made' = [made EXCEPT !.at = IF r.panic THEN "panicked" ELSE "entry",
                               !.panicked = r.panic,
                               !.level = r.level]
    /\ UNCHANGED <<handlerVars, hashVars, queryVars, tweet, conn, race>>

NextLevel == BossFrom

SpecLevel == InitLevel /\ [][NextLevel]_vars

\* C31: pushing a raid with a new non-empty single-line boss_name never
\* panics, however many digits its level prefix has: it yields an entry.
C31_NoPanic ==
    made.at \in {"entry", "panicked"} => made.at = "entry" /\ ~made.panicked

\* C35: raids are pushed with pairwise distinct tweet_ids, and no history of
\* a live entry holds two raids with the same tweet_id, after any sequence of
\* push, update_image_hash and retain over names of one level and one hash.
C35_NoRaidTwice ==
    \A id \in DOMAIN entries :
       \A i, j \in DOMAIN entries[id].history :
          i # j => entries[id].history[i].tweet_id # entries[id].history[j].tweet_id

\* ------------------------------------------------ two tasks on one BossMap
\* RaidHandler is shared by tasks of a multi-threaded runtime.  Its methods
\* take no lock of their own: every DashMap, ArcSwap, RwLock, atomic and
\* channel operation is atomic and the tasks interleave between them.  Each
\* of two tasks runs one operation on a registry that is empty or holds one
\* boss created by an earlier push.  Entry and channel ids are allocated in
\* ascending order and nothing is dropped.
Tasks == {1, 2}
\* the tasks work on one boss name, so that BossMap::find has no entry of
\* another name to return and update_image_hash takes its else branch
RaceNames == {"en1"}
\* raid_history_size of these runs
RaceHistorySize == 4

Ready == [op |-> "none", pc |-> "ready", name |-> None, raid |-> <<>>,
          hash |-> NoHash, entry |-> 0, new |-> 0, keys |-> <<>>, snap |-> <<>>,
          existing |-> FALSE]

EmptyRegistry ==
    [at |-> "run", map |-> EmptyMap, entries |-> EmptyMap, vec |-> <<>>,
     waiting |-> EmptyMap, sent |-> EmptyMap, published |-> <<>>,
     rx |-> [t \in Tasks |-> 0], tasks |-> [t \in Tasks |-> Ready],
     raids |-> <<>>, next_entry |-> 1, next_chan |-> 1]

\* the registry after push(raid) on an empty one
RegistryAfter(raid) ==
    [EmptyRegistry EXCEPT
       !.map = Put(EmptyMap, raid.boss_name, 1),
       !.entries = Put(EmptyMap, 1, [boss |-> BossFromRaid(raid), broadcast |-> 1,
                                     history |-> <<raid>>]),
       !.vec = <<1>>,
       !.sent = Put(EmptyMap, 1, <<raid.tweet_id>>),
       !.published = <<1>>,
       !.raids = <<raid>>, !.next_entry = 2, !.next_chan = 2]

InitRace ==
    /\ InitHandler /\ InitHash
    /\ page = Idle /\ codec = Idle /\ tweet = Idle /\ conn = Idle /\ made = Idle
    /\ race \in {EmptyRegistry} \cup {RegistryAfter(r) : r \in Raids(1, RaceNames, PairTimes)}

\* BossEntry::for_each_key: the ja name, then the en name
for_each_key(e) ==
    (IF e.boss.name.ja # None THEN <<e.boss.name.ja>> ELSE <<>>)
    \o (IF e.boss.name.en # None THEN <<e.boss.name.en>> ELSE <<>>)

Task(t) == race.tasks[t]
RaceStep(r) ==
    /\ race' = r
    /\ UNCHANGED <<handlerVars, hashVars, queryVars, tweet, conn, made>>
\* the task moves to pc
Goto(r, t, pc) == [r EXCEPT !.tasks[t].pc = pc]

\* a task calls RaidHandlerInner2::push
StartPush(t) ==
    /\ race.at = "run" /\ Task(t).pc = "ready"
    /\ \E raid \in Raids(Len(race.raids) + 1, RaceNames, PairTimes) :
          RaceStep([race EXCEPT !.raids = Append(@, raid),
                                !.tasks[t] = [Ready EXCEPT !.op = "push", !.pc = "push_get",
                                                           !.name = raid.boss_name,
                                                           !.raid = <<raid>>]])

\* a task calls RaidHandlerInner2::subscribe
StartSubscribe(t) ==
    /\ race.at = "run" /\ Task(t).pc = "ready"
    /\ \E n \in RaceNames :
          RaceStep([race EXCEPT !.tasks[t] = [Ready EXCEPT !.op = "subscribe",
                                                           !.pc = "sub_map_get",
                                                           !.name = n]])

\* a task calls RaidHandlerInner2::update_image_hash
StartUpdate(t) ==
    /\ race.at = "run" /\ Task(t).pc = "ready"
    /\ \E n \in RaceNames, hash \in Hashes :
          RaceStep([race EXCEPT !.tasks[t] = [Ready EXCEPT !.op = "update_image_hash",
                                                           !.pc = "uih_get",
                                                           !.name = n, !.hash = hash]])

\* push: self.bosses.get(&raid.boss_name)
PushGet(t) ==
    /\ race.at = "run" /\ Task(t).pc = "push_get"
    /\ IF Task(t).name \in DOMAIN race.map
       THEN RaceStep([race EXCEPT !.tasks[t].entry = race.map[Task(t).name],
                                  !.tasks[t].existing = TRUE,
                                  !.tasks[t].pc = "push_last_seen"])
       ELSE RaceStep(Goto(race, t, "new_remove_take"))

\* push: entry.boss.last_seen_at.replace(&raid.created_at)
PushLastSeen(t) ==
    /\ race.at = "run" /\ Task(t).pc = "push_last_seen"
    /\ RaceStep(Goto([race EXCEPT !.entries[Task(t).entry].boss.last_seen_at =
                                      Task(t).raid[1].created_at],
                     t, "push_send"))

\* push: entry.broadcast.send(raid.clone())
PushSend(t) ==
    /\ race.at = "run" /\ Task(t).pc = "push_send"
    /\ RaceStep(Goto([race EXCEPT !.sent[race.entries[Task(t).entry].broadcast] =
                                      Append(@, Task(t).raid[1].tweet_id)],
                     t, "push_history"))

\* push: entry.history.write().push(raid.clone())
PushHistory(t) ==
    /\ race.at = "run" /\ Task(t).pc = "push_history"
    /\ RaceStep(Goto([race EXCEPT !.entries[Task(t).entry].history =
                                      QueuePush(@, Task(t).raid[1], RaceHistorySize)],
                     t, "push_image"))

\* push: the image test, and on success the first read of BossEntry::clone
\* (the boss), with the image set on the clone
PushImage(t) ==
    /\ race.at = "run" /\ Task(t).pc = "push_image"
    /\ LET entry == race.entries[Task(t).entry]
           raid == Task(t).raid[1]
       IN IF LangGet(entry.boss.image, raid.language) = None /\ raid.image_url # None
          THEN RaceStep([race EXCEPT
                  !.entries = Put(@, race.next_entry,
                      [boss |-> [entry.boss EXCEPT
                                   !.image = LangSet(@, raid.language, raid.image_url)],
                       broadcast |-> entry.broadcast, history |-> <<>>]),
                  !.next_entry = @ + 1,
                  !.tasks[t].new = race.next_entry,
                  !.tasks[t].pc = "clone_history"])
          ELSE RaceStep(Goto(race, t, "done"))

\* update_image_hash: self.bosses.get(boss_name) and the image_hash test
UpdateGet(t) ==
    /\ race.at = "run" /\ Task(t).pc = "uih_get"
    /\ IF /\ Task(t).name \in DOMAIN race.map
          /\ race.entries[race.map[Task(t).name]].boss.image_hash = NoHash
       THEN RaceStep([race EXCEPT !.tasks[t].entry = race.map[Task(t).name],
                                  !.tasks[t].pc = "uih_find"])
       ELSE RaceStep(Goto(race, t, "done"))

\* update_image_hash: self.bosses.find(..) returns None, and the first read
\* of BossEntry::clone (the boss), with the hash set on the clone
UpdateFind(t) ==
    /\ race.at = "run" /\ Task(t).pc = "uih_find"
    /\ LET entry == race.entries[Task(t).entry]
       IN /\ \A k \in DOMAIN race.map :
                LET other_boss == race.entries[race.map[k]].boss
                IN ~(/\ other_boss.image_hash = Task(t).hash
                     /\ other_boss.level = entry.boss.level
                     /\ other_boss.name # entry.boss.name)
          /\ RaceStep([race EXCEPT
                  !.entries = Put(@, race.next_entry,
                      [boss |-> [entry.boss EXCEPT !.image_hash = Task(t).hash],
                       broadcast |-> entry.broadcast, history |-> <<>>]),
                  !.next_entry = @ + 1,
                  !.tasks[t].new = race.next_entry,
                  !.tasks[t].pc = "clone_history"])

\* BossEntry::clone: RwLock::new(self.history.read().clone())
CloneHistory(t) ==
    /\ race.at = "run" /\ Task(t).pc = "clone_history"
    /\ RaceStep([race EXCEPT
            !.entries[Task(t).new].history = race.entries[Task(t).entry].history,
            !.tasks[t].keys = for_each_key(race.entries[Task(t).new]),
            !.tasks[t].pc = "insert_map"])

\* new_entry_from_raid: self.waiting.remove_take(&raid.boss_name), or a new
\* channel, and the entry around it
NewRemoveTake(t) ==
    /\ race.at = "run" /\ Task(t).pc = "new_remove_take"
    /\ LET taken == Task(t).name \in DOMAIN race.waiting
           c == IF taken THEN race.waiting[Task(t).name] ELSE race.next_chan
       IN RaceStep([race EXCEPT
              !.waiting = Restrict(@, DOMAIN @ \ {Task(t).name}),
              !.sent = IF taken THEN @ ELSE Put(@, c, <<>>),
              !.next_chan = IF taken THEN @ ELSE @ + 1,
              !.entries = Put(@, race.next_entry,
                              [boss |-> BossFromRaid(Task(t).raid[1]),
                               broadcast |-> c, history |-> <<>>]),
              !.next_entry = @ + 1,
              !.tasks[t].new = race.next_entry,
              !.tasks[t].pc = "new_send"])

\* new_entry_from_raid: entry.broadcast.send(raid.clone()) and the push to
\* the history of the entry, which no other task can reach yet
NewSend(t) ==
    /\ race.at = "run" /\ Task(t).pc = "new_send"
    /\ LET e == race.entries[Task(t).new]
       IN RaceStep([race EXCEPT
              !.sent[e.broadcast] = Append(@, Task(t).raid[1].tweet_id),
              !.entries[Task(t).new].history =
                  QueuePush(@, Task(t).raid[1], RaceHistorySize),
              !.tasks[t].keys = for_each_key(e),
              !.tasks[t].pc = "insert_map"])

\* BossMap::insert: self.map.insert(key.clone(), entry.clone())
InsertMap(t) ==
    /\ race.at = "run" /\ Task(t).pc = "insert_map"
    /\ RaceStep(Goto([race EXCEPT !.map = Put(@, Head(Task(t).keys), Task(t).new)],
                     t, "insert_waiting"))

\* BossMap::insert: self.waiting.remove(&key), then the next key
InsertWaiting(t) ==
    /\ race.at = "run" /\ Task(t).pc = "insert_waiting"
    /\ RaceStep([race EXCEPT
            !.waiting = Restrict(@, DOMAIN @ \ {Head(Task(t).keys)}),
            !.tasks[t].keys = Tail(@),
            !.tasks[t].pc = IF Tail(Task(t).keys) = <<>> THEN "vec_iter"
                            ELSE "insert_map"])

\* BossMap::update_vec: the map is iterated, sorted and deduplicated
VecIter(t) ==
    /\ race.at = "run" /\ Task(t).pc = "vec_iter"
    /\ \E ord \in IterOrders :
          RaceStep([race EXCEPT !.tasks[t].snap = update_vec(race, ord).vec,
                                !.tasks[t].pc = "vec_store"])

\* BossMap::update_vec: self.vec.store(Arc::new(vec))
VecStore(t) ==
    /\ race.at = "run" /\ Task(t).pc = "vec_store"
    /\ RaceStep([race EXCEPT !.vec = Task(t).snap,
                             !.tasks[t].pc = IF Task(t).op = "push" THEN "boss_send"
                                             ELSE "done"])

\* push: self.boss_broadcast.send(Arc::downgrade(&new_entry))
BossSend(t) ==
    /\ race.at = "run" /\ Task(t).pc = "boss_send"
    /\ RaceStep(Goto([race EXCEPT !.published = Append(@, Task(t).new)], t, "done"))

\* BossMap::subscribe: self.map.get(key)
SubMapGet(t) ==
    /\ race.at = "run" /\ Task(t).pc = "sub_map_get"
    /\ IF Task(t).name \in DOMAIN race.map
       THEN RaceStep(Goto([race EXCEPT
                !.rx[t] = race.entries[race.map[Task(t).name]].broadcast], t, "done"))
       ELSE RaceStep(Goto(race, t, "sub_waiting_get"))

\* BossMap::subscribe: self.waiting.get(key)
SubWaitingGet(t) ==
    /\ race.at = "run" /\ Task(t).pc = "sub_waiting_get"
    /\ IF Task(t).name \in DOMAIN race.waiting
       THEN RaceStep(Goto([race EXCEPT !.rx[t] = race.waiting[Task(t).name]], t, "done"))
       ELSE RaceStep(Goto(race, t, "sub_waiting_insert"))

\* BossMap::subscribe: broadcast::channel(1) and self.waiting.insert(key, tx)
SubWaitingInsert(t) ==
    /\ race.at = "run" /\ Task(t).pc = "sub_waiting_insert"
    /\ RaceStep(Goto([race EXCEPT !.waiting = Put(@, Task(t).name, race.next_chan),
                                  !.sent = Put(@, race.next_chan, <<>>),
                                  !.rx[t] = race.next_chan,
                                  !.next_chan = @ + 1],
                     t, "done"))

NextRace ==
    \E t \in Tasks :
       \/ StartPush(t) \/ StartSubscribe(t) \/ StartUpdate(t)
       \/ PushGet(t) \/ PushLastSeen(t) \/ PushSend(t) \/ PushHistory(t) \/ PushImage(t)
       \/ UpdateGet(t) \/ UpdateFind(t) \/ CloneHistory(t)
       \/ NewRemoveTake(t) \/ NewSend(t)
       \/ InsertMap(t) \/ InsertWaiting(t) \/ VecIter(t) \/ VecStore(t) \/ BossSend(t)
       \/ SubMapGet(t) \/ SubWaitingGet(t) \/ SubWaitingInsert(t)

SpecRace == InitRace /\ [][NextRace]_vars

\* both tasks have returned from their operation
AllDone == race.at = "run" /\ \A t \in Tasks : Task(t).pc = "done"
\* the task ran an operation that built and inserted an entry
Inserted(t) == Task(t).op \in {"push", "update_image_hash"} /\ Task(t).new # 0

\* C33: once a subscribe(n) and the first push for n, run by two tasks, have
\* both finished, no name is a key of both the boss map and the waiting map.
C33_NotMapAndWaiting ==
    (/\ AllDone
     /\ \E s, p \in Tasks :
           /\ Task(s).op = "subscribe"
           /\ Task(p).op = "push" /\ ~Task(p).existing
           /\ Task(p).name = Task(s).name)
    => DOMAIN race.map \cap DOMAIN race.waiting = {}

\* C34: once a push that inserted an entry and an update_image_hash that
\* inserted an entry, run by two tasks, have both finished, the published
\* snapshot holds exactly the distinct entries stored in the map.
C34_SnapshotOfMap ==
    (/\ AllDone
     /\ \E p, q \in Tasks :
           /\ Task(p).op = "push" /\ Inserted(p)
           /\ Task(q).op = "update_image_hash" /\ Inserted(q))
    => /\ Range(race.vec) = Range(race.map)
       /\ \A i, j \in DOMAIN race.vec : i # j => race.vec[i] # race.vec[j]

\* C32: once a push on an existing boss and, from the other task, an
\* update_image_hash or an image-filling push on the same boss have both
\* finished, with fewer than history_size raids pushed in total, every raid
\* pushed is in the history of the entry the name resolves to.
C32_NoRaidLost ==
    (/\ AllDone
     /\ Len(race.raids) < RaceHistorySize
     /\ \E p, q \in Tasks :
           /\ p # q
           /\ Task(p).op = "push" /\ Task(p).existing
           /\ Inserted(q) /\ Task(q).name = Task(p).name
           /\ Task(q).op = "push" => Task(q).existing)
    => \A i \in DOMAIN race.raids :
          /\ race.raids[i].boss_name \in DOMAIN race.map
          /\ \E k \in DOMAIN race.entries[race.map[race.raids[i].boss_name]].history :
                race.entries[race.map[race.raids[i].boss_name]].history[k] = race.raids[i]

====
